---- MODULE Spec2Model ----
(***************************************************************************)
(* Windsurf-Tool: the identity-write reconciliation engine.                *)
(*                                                                         *)
(*   src/unnamed/part_000      class ConfigPersister (configPersister.js)  *)
(*   src/js/accountSwitcher.js WindsurfPathDetector, AccountSwitcher       *)
(*                                                                         *)
(* JavaScript runs the engine on one thread.  A step of the model is what  *)
(* runs between two suspension points: from the completion of a file       *)
(* read, a file write, a timed delay or a timer up to the next await that  *)
(* really waits.  Promise continuations that follow a completion without   *)
(* waiting belong to the same step.                                        *)
(***************************************************************************)
EXTENDS Integers, Sequences, FiniteSets, TLC

(***************************************************************************)
(* Bounds of the model.                                                    *)
(***************************************************************************)
\* a client does not ask for a forced write, and a timer callback does not
\* begin a repair, that could take writeCount beyond this
MaxWrites == 3
\* monitors (setInterval timers) one ConfigPersister instance starts
MaxStarts == 1
\* options.maxRetries of startMonitoring (10 by default, 20 and 10 in
\* switchAccount); the loop stops at this many consecutive failures
MaxRetries == 2
\* largest `times` argument a client passes to forceWrite (SpecMon, SpecForce)
MaxTimes == 2
\* timer callbacks of the monitors that may be suspended at the same time
MaxTicksInFlight == 1

(***************************************************************************)
(* The embedded store: one table of (key, value-text) rows.                *)
(***************************************************************************)
SessionsKey == "secret://windsurf_auth.sessions"
AuthStatusKey == "windsurfAuthStatus"
ConfigKey == "codeium.windsurf"
AuthNameKey == "codeium.windsurf-windsurf_auth"
LegacyKey == "windsurf_auth-a"
Keys == {SessionsKey, AuthStatusKey, ConfigKey, AuthNameKey, LegacyKey}
\* keys that match LIKE 'windsurf_auth-%' (663): in LIKE the underscore
\* stands for any one character
LegacyKeys == {LegacyKey, "windsurf_auth-b", "windsurf.auth-c"}
LikeLegacy(key) == key \in LegacyKeys

\* no row under the key
Absent == [fmt |-> "none", body |-> [none |-> TRUE]]

\* JSON.stringify of a structured value: a text that parses back to it
JSONstringify(o) == [fmt |-> "json", body |-> o]
\* JSON.parse succeeds on JSON text only
IsJSON(text) == text.fmt = "json"
JSONparse(text) == text.body

\* the three kinds of JavaScript value handed to a store write
JsBuffer(bytes) == [js |-> "buffer", v |-> bytes]
JsObject(o) == [js |-> "object", v |-> o]
JsString(s) == [js |-> "string", v |-> [s |-> s]]
JsNull == [js |-> "null", v |-> [none |-> TRUE]]
JsUndefined == [js |-> "undefined", v |-> [none |-> TRUE]]
\* the text "null", which is what JSON.stringify(null) gives
NullText == JSONstringify([null |-> TRUE])

(***************************************************************************)
(* Accounts.  accountData is what switchAccount hands to the persister:    *)
(* email, name, apiKey, apiServerUrl and no refreshToken, so the token     *)
(* fetch of writeAccountData (part_000:218) is not taken for it.           *)
(***************************************************************************)
DefaultServerUrl == "https://server.self-serve.windsurf.com"
accountData == [email |-> "b@x.com", name |-> "B", apiKey |-> "keyB",
                apiServerUrl |-> DefaultServerUrl]
\* the account the target application was logged in with
otherAccount == [email |-> "a@x.com", name |-> "A", apiKey |-> "keyA",
                 apiServerUrl |-> DefaultServerUrl]

\* the triple the account file holds, and the one RegisterUser gives
CachedCreds == [name |-> accountData.name, apiKey |-> accountData.apiKey,
                apiServerUrl |-> accountData.apiServerUrl]
FetchedCreds == [name |-> "Bnew", apiKey |-> "keyBnew", apiServerUrl |-> DefaultServerUrl]
NoCreds == [name |-> "none", apiKey |-> "none", apiServerUrl |-> "none"]
\* accountData of switchAccount (823-828): email, name, apiKey, apiServerUrl
AccountOf(email, c) ==
  [email |-> email, name |-> c.name, apiKey |-> c.apiKey, apiServerUrl |-> c.apiServerUrl]
\* the value of a property that was never set, or was set to undefined
Undefined == "undefined"
\* o[field] counts as true in a condition: a string that is not empty
Truthy(o, field) == field \in DOMAIN o /\ o[field] \notin {Undefined, ""}
\* writeAccountData fetches Firebase tokens for such an account (part_000:218)
NeedsFirebaseTokens(account) ==
  /\ ~Truthy(account, "idToken") /\ ~Truthy(account, "accessToken")
  /\ Truthy(account, "refreshToken")


WindsurfUserData == "Windsurf"

\* a choice that looks at accessToken before idToken
TokenToUseAccessFirst(account) ==
  IF Truthy(account, "accessToken") THEN account.accessToken
  ELSE IF Truthy(account, "idToken") THEN account.idToken
  ELSE account.apiKey

\* createEncryptedSessions, part_000:83-93
TokenToUse(account) ==
  IF Truthy(account, "idToken") THEN account.idToken
  ELSE IF Truthy(account, "accessToken") THEN account.accessToken
  ELSE account.apiKey

\* createEncryptedSessions: the sealed bytes of the sessions array; the
\* fresh uuid of the session id is left out
EncryptedSessions(acct) ==
  [sealedFor |-> WindsurfUserData, accessToken |-> TokenToUse(acct),
   label |-> acct.name, id |-> acct.name]

AuthStatusOf(acct) ==
  [name |-> acct.name, apiKey |-> acct.apiKey, email |-> acct.email,
   planName |-> "Pro"]

CodeiumConfigOf(acct) ==
  [apiServerUrl |-> acct.apiServerUrl, hasOneTimeUpdatedUnspecifiedMode |-> TRUE]

\* a marshaling that gives a Buffer no tag
FinalValueUntagged(value) ==
  IF value.js \in {"buffer", "object"}
    THEN JSONstringify(value.v)
    ELSE [fmt |-> "raw", body |-> value.v]

\* writeToDatabase: the text stored for a value
\* typeof null is 'object': null goes through JSON.stringify
FinalValue(value) ==
  IF value.js = "buffer"
    THEN JSONstringify([type |-> "Buffer", data |-> value.v])
    ELSE IF value.js = "object"
      THEN JSONstringify(value.v)
      ELSE IF value.js = "null"
        THEN NullText
        ELSE [fmt |-> "raw", body |-> value.v]

\* writeAccountData writes four rows, in this order
NumRows == 4
RowKey(k) ==
  CASE k = 1 -> SessionsKey
    [] k = 2 -> AuthStatusKey
    [] k = 3 -> ConfigKey
    [] OTHER -> AuthNameKey
RowValue(k, acct) ==
  CASE k = 1 -> JsBuffer(EncryptedSessions(acct))
    [] k = 2 -> JsObject(AuthStatusOf(acct))
    [] k = 3 -> JsObject(CodeiumConfigOf(acct))
    [] OTHER -> JsString(acct.name)

\* db.run('INSERT OR REPLACE ...') on the snapshot read from the file
InsertOrReplace(db, key, text) == [db EXCEPT ![key] = text]

\* the store of a target application logged in with acct
StoreOf(acct) ==
  [k \in Keys |->
     IF k = LegacyKey THEN JSONstringify([legacy |-> acct.name])
     ELSE IF k = SessionsKey THEN FinalValue(RowValue(1, acct))
     ELSE IF k = AuthStatusKey THEN FinalValue(RowValue(2, acct))
     ELSE IF k = ConfigKey THEN FinalValue(RowValue(3, acct))
     ELSE FinalValue(RowValue(4, acct))]

(***************************************************************************)
(* State.                                                                  *)
(***************************************************************************)
\* ConfigPersister instances: every switchAccount run makes a new one
\* (accountSwitcher.js:820)
Persisters == {"p1", "p2"}
\* the instance of the run, or of the client, that a specification follows
First == "p1"

\* lastWrittenData = null
NoData == [email |-> "none", name |-> "none"]
\* monitorInterval = null
NoTimer == 0
\* no forceWrite has returned; readOk (history): the final verification
\* could read the file
NoResult == [value |-> FALSE, readOk |-> FALSE]
\* the 'userData' path the tool starts with, and no sealing call made
AppUserData == "App"
NoSeal == [entry |-> "none", before |-> "none", after |-> "none", sealedWith |-> "none",
           sealed |-> "none", result |-> "none"]
\* no store write was called
NoPurge == [outcome |-> "none", found |-> 0, before |-> <<>>,
            prevOutcome |-> "none", prevFound |-> 0]
NoRelay == [request |-> "none", reply |-> "none", answer |-> "none"]
NoStorage == [file |-> [kind |-> "none"], resets |-> 0, outcome |-> "none",
              before |-> [kind |-> "none"]]
NoStop == [at |-> "none", platform |-> "none", sent |-> <<>>, i |-> 0, polls |-> 0,
           steps |-> 0, seen |-> "none"]
NoLaunch == [at |-> "none", platform |-> "none", works |-> <<>>, tried |-> <<>>]
NoUpsert == [entry |-> "none", key |-> "none", arg |-> [js |-> "none"], value |-> "none",
             outcome |-> "none"]
\* no write sequence was called with an account of its own
NoToken == [at |-> "none"]
\* switchAccount has not returned
NoReturn == [returned |-> FALSE, success |-> FALSE, error |-> "none"]

VARIABLES
  store,            \* the rows of the store file state.vscdb
  targetRunning,    \* the target application is running
  isMonitoring,     \* ConfigPersister.isMonitoring, per instance
  monitorInterval,  \* ConfigPersister.monitorInterval: a timer id or NoTimer
  lastWrittenData,  \* ConfigPersister.lastWrittenData
  writeCount,       \* ConfigPersister.writeCount
  intervals,        \* the setInterval timers made so far, by id
  frames,           \* the suspended async calls of the persisters
  callRet,          \* what the last forceWrite returned
  pc,               \* where switchAccount is ("client": no run is modelled)
  skipClose,        \* the skipClose argument of switchAccount
  result,           \* what switchAccount returned
  guard,            \* the setTimeout that stops the monitor of the run
  machineIds,       \* how often the machine identity set was regenerated
  stages,           \* history: the stages the run entered, in order
  failures,         \* history: the stage failures of the run
  queryFailed,      \* history: step 1 did not see the running target
  closeSeen,        \* history: what the last check of closeWindsurf saw
  creds,            \* apiKey, name and apiServerUrl of switchAccount after step 3
  calls,            \* history: the calls of the two endpoints and their replies
  upsert,           \* history: the last call of a store write and its outcome
  userData,         \* the 'userData' path of the Electron app
  seal,             \* history: the last sealing call and how it went
  token,            \* the account object of a write sequence and the token sealed
  purge,            \* history: the last purge of the legacy rows
  relay,            \* history: the last request to the relay and its answer
  storage,          \* the machine-identity file storage.json
  stop,             \* the closeWindsurf call in progress
  launch            \* the startWindsurf call in progress

persisterVars == <<isMonitoring, monitorInterval, lastWrittenData, writeCount,
                   intervals, frames>>
switchVars == <<pc, skipClose, result, guard, machineIds, stages, failures, queryFailed,
                closeSeen, creds, calls>>
\* what only the specifications of single functions change
sealVars == <<upsert, userData, seal, token>>
funcVars == <<purge, relay, storage, stop, launch>>
unitVars == <<sealVars, funcVars>>
vars == <<store, targetRunning, persisterVars, callRet, switchVars, unitVars>>

Remove(s, j) == SubSeq(s, 1, j - 1) \o SubSeq(s, j + 1, Len(s))

\* a suspended call: startMonitoring ("start"), forceWrite ("force") or a
\* timer callback ("tick"), with its `account` argument.  wpc is where it
\* waits:
\*   "row"           in writeToDatabase of row `row`
\*   "verify"        in verifyLoginStatus, at fs.readFile
\*   "delay"         forceWrite, at the delay between two attempts
\* history fields: attempts (writeAccountData calls made by the call) and
\* ioFailed (a row write of the current writeAccountData failed)
NewFrame(p, kind, account) ==
  [p |-> p, kind |-> kind, account |-> account, timer |-> NoTimer, i |-> 0,
   times |-> 0, attempts |-> 0, wpc |-> "verify", row |-> 0, ioFailed |-> FALSE]

CallInFlight(p) ==
  \E j \in DOMAIN frames : frames[j].p = p /\ frames[j].kind \in {"start", "force"}
TicksInFlight == Cardinality({j \in DOMAIN frames : frames[j].kind = "tick"})
ActiveTimers == {t \in DOMAIN intervals : intervals[t].active}
TimersOf(p) == {t \in DOMAIN intervals : intervals[t].owner = p}

\* a timer made by startMonitoring(account): retryCount and account are the
\* variables its callback closes over; repairs (history) counts the repairs
\* in a row that succeeded, up to MaxRetries
NewInterval(p, account) ==
  [owner |-> p, account |-> account, active |-> TRUE, retryCount |-> 0, repairs |-> 0]
\* the record of a timer that was cleared and whose callback is not running:
\* nothing refers to its retryCount any more
Cleared(int) == [int EXCEPT !.active = FALSE, !.retryCount = 0, !.repairs = 0]
Collect(ints, fs) ==
  [t \in DOMAIN ints |->
     IF ints[t].active \/ \E j \in DOMAIN fs : fs[j].kind = "tick" /\ fs[j].timer = t
       THEN ints[t] ELSE Cleared(ints[t])]

(***************************************************************************)
(* verifyLoginStatus (part_000:276-316): the result for the file as read.  *)
(* readOk = FALSE is fs.readFile failing.                                  *)
(***************************************************************************)
VerifyLoginStatus(p, readOk, db) ==
  IF ~readOk
    THEN [success |-> FALSE, hasAuth |-> FALSE, email |-> "none"]
    ELSE IF db[AuthStatusKey] = Absent
      THEN [success |-> FALSE, hasAuth |-> FALSE, email |-> "none"]
      ELSE IF ~IsJSON(db[AuthStatusKey])
        THEN [success |-> FALSE, hasAuth |-> FALSE, email |-> "none"]
        ELSE LET authStatus == JSONparse(db[AuthStatusKey]) IN
          IF lastWrittenData[p] # NoData
            THEN [success |-> authStatus.email = lastWrittenData[p].email,
                  hasAuth |-> TRUE, email |-> authStatus.email]
            ELSE [success |-> TRUE, hasAuth |-> TRUE, email |-> authStatus.email]

(***************************************************************************)
(* stopMonitoring (part_000:388-397) on the state (mi, ints).              *)
(***************************************************************************)
\* a stopMonitoring that forgets clearInterval
StopIntervalsNoClear(p, mi, ints) == ints

\* if (this.monitorInterval) clearInterval(this.monitorInterval)
StopIntervals(p, mi, ints) ==
  [t \in DOMAIN ints |-> IF t = mi[p] THEN [ints[t] EXCEPT !.active = FALSE] ELSE ints[t]]
\* this.monitorInterval = null
StopInterval(p, mi) == [mi EXCEPT ![p] = NoTimer]

(***************************************************************************)
(* How a call goes on when its writeAccountData has returned `ret`.  fs is *)
(* the calls in flight with the call at j, f the call itself, isMon and wc *)
(* the flags and counters as the step has them so far.                     *)
(***************************************************************************)
\* a callback that counts every repair, successful or not, against the
\* retry budget
TickAfterWriteCounting(fs, j, f, ret, isMon) ==
  LET t == f.timer
      retryCount == intervals[t].retryCount + 1
      counted == [intervals EXCEPT ![t].retryCount = retryCount, ![t].repairs = 0]
      exhausted == retryCount >= MaxRetries
  IN /\ frames' = Remove(fs, j)
     /\ intervals' = Collect(IF exhausted THEN [counted EXCEPT ![t].active = FALSE]
                                           ELSE counted, Remove(fs, j))
     /\ monitorInterval' = (IF exhausted THEN [monitorInterval EXCEPT ![f.p] = NoTimer]
                            ELSE monitorInterval)
     /\ isMonitoring' = (IF exhausted THEN [isMon EXCEPT ![f.p] = FALSE] ELSE isMon)

\* the timer callback, part_000:355-366
TickAfterWrite(fs, j, f, ret, isMon) ==
  LET t == f.timer
      retryCount == IF ret THEN 0 ELSE intervals[t].retryCount + 1
      counted == [intervals EXCEPT ![t].retryCount = retryCount,
                                   ![t].repairs = IF ret THEN (IF @ < MaxRetries THEN @ + 1 ELSE @)
                                                  ELSE 0]
      exhausted == ~ret /\ retryCount >= MaxRetries
  IN /\ frames' = Remove(fs, j)
     /\ intervals' = Collect(IF exhausted THEN StopIntervals(f.p, monitorInterval, counted)
                                           ELSE counted, Remove(fs, j))
     /\ monitorInterval' = (IF exhausted THEN StopInterval(f.p, monitorInterval)
                            ELSE monitorInterval)
     /\ isMonitoring' = (IF exhausted THEN [isMon EXCEPT ![f.p] = FALSE] ELSE isMon)

\* a forceWrite that stops at the first attempt that succeeds
ForceAfterWriteUntilSuccess(fs, j, f, ret, isMon) ==
  /\ frames' = [fs EXCEPT ![j] = [f EXCEPT !.wpc = IF f.i < f.times /\ ~ret THEN "delay"
                                                   ELSE "verify",
                                            !.row = 0]]
  /\ isMonitoring' = isMon
  /\ UNCHANGED <<intervals, monitorInterval>>

\* forceWrite, part_000:410-417: the result of the attempt is only logged
ForceAfterWrite(fs, j, f, ret, isMon) ==
  /\ frames' = [fs EXCEPT ![j] = [f EXCEPT !.wpc = IF f.i < f.times THEN "delay" ELSE "verify",
                                            !.row = 0]]
  /\ isMonitoring' = isMon
  /\ UNCHANGED <<intervals, monitorInterval>>

\* startMonitoring, part_000:340-383: the result of the first write is
\* dropped, the timer is installed with retryCount = 0
StartAfterWrite(fs, j, f, ret, isMon) ==
  /\ intervals' = Append(intervals, NewInterval(f.p, f.account))
  /\ monitorInterval' = [monitorInterval EXCEPT ![f.p] = Len(intervals) + 1]
  /\ frames' = Remove(fs, j)
  /\ isMonitoring' = isMon

\* the tail of writeAccountData (part_000:256-270) and the caller's next
\* statements.  ret = FALSE only when createEncryptedSessions threw.
WadReturn(fs, j, f, ret, db, isMon, wc) ==
  /\ store' = db
  /\ writeCount' = (IF ret THEN [wc EXCEPT ![f.p] = @ + 1] ELSE wc)
  /\ lastWrittenData' = (IF ret
        THEN [lastWrittenData EXCEPT ![f.p] = [email |-> f.account.email,
                                               name |-> f.account.name]]
        ELSE lastWrittenData)
  /\ CASE f.kind = "tick" -> TickAfterWrite(fs, j, f, ret, isMon)
       [] f.kind = "force" -> ForceAfterWrite(fs, j, f, ret, isMon)
       [] OTHER -> StartAfterWrite(fs, j, f, ret, isMon)

\* the call waits again
Suspend(fs, j, g, db, isMon, wc) ==
  /\ frames' = [fs EXCEPT ![j] = g]
  /\ store' = db
  /\ isMonitoring' = isMon
  /\ writeCount' = wc
  /\ UNCHANGED <<lastWrittenData, intervals, monitorInterval>>

\* writeAccountData up to its first await (part_000:213-233):
\* createEncryptedSessions throws (sealOk = FALSE) and the catch returns
\* false, or the first writeToDatabase waits for the file
BeginWrite(fs, j, f, sealOk, isMon, wc) ==
  LET g == [f EXCEPT !.attempts = @ + 1, !.ioFailed = FALSE] IN
  IF sealOk
    THEN Suspend(fs, j, [g EXCEPT !.wpc = "row", !.row = 1], store, isMon, wc)
    ELSE WadReturn(fs, j, g, FALSE, store, isMon, wc)

\* writeToDatabase of row f.row has returned (its result is not looked at,
\* part_000:233-254): the next row, or the tail
NextRow(fs, j, f, db) ==
  IF f.row < NumRows
    THEN Suspend(fs, j, [f EXCEPT !.row = @ + 1], db, isMonitoring, writeCount)
    ELSE WadReturn(fs, j, f, TRUE, db, isMonitoring, writeCount)

(***************************************************************************)
(* writeToDatabase (part_000:127-169), one row write of a suspended call:  *)
(* the file is read, the row replaced in the database and the database     *)
(* written back; when fs.readFile or fs.writeFile fails (ok = FALSE) the   *)
(* file is as it was and the catch returns false.  The read and the        *)
(* write-back are one step here: what another writer does to the file      *)
(* between the two is not part of these specifications.                    *)
(***************************************************************************)
\* what writeToDatabase returns: sql.js refuses to bind undefined, which
\* the catch turns into false like an I/O error
WriteToDatabaseReturn(value, ok) == ok /\ value.js # "undefined"
WriteToDatabase(db, key, value, ok) ==
  IF WriteToDatabaseReturn(value, ok) THEN InsertOrReplace(db, key, FinalValue(value)) ELSE db

\* switchAccount awaits startMonitoring (accountSwitcher.js:842-857,
\* 879-905): when the call has returned, the timeout that stops the monitor
\* is set and switchAccount returns its result
Success == [returned |-> TRUE, success |-> TRUE, error |-> "none"]
SwitchAwaitStart ==
  IF \E j \in DOMAIN frames' : frames'[j].kind = "start"
    THEN pc' = "start" /\ UNCHANGED <<guard, result>>
    ELSE pc' = "done" /\ guard' = "armed" /\ result' = Success

DbRow(j) ==
  /\ j \in DOMAIN frames
  /\ frames[j].wpc = "row"
  /\ \E ok \in BOOLEAN :
       LET f == frames[j]
           db == WriteToDatabase(store, RowKey(f.row), RowValue(f.row, f.account), ok)
       IN NextRow(frames, j, [f EXCEPT !.ioFailed = @ \/ ~ok], db)
  /\ IF pc = "start" /\ frames[j].kind = "start"
       THEN /\ SwitchAwaitStart
            /\ UNCHANGED <<skipClose, machineIds, stages, failures, queryFailed, closeSeen, creds, calls>>
       ELSE UNCHANGED switchVars
  /\ UNCHANGED <<callRet, targetRunning>>
  /\ UNCHANGED unitVars

(***************************************************************************)
(* The timer callback of startMonitoring (part_000:343-380).               *)
(***************************************************************************)
\* the interval timer fires: the callback calls verifyLoginStatus, which
\* waits for the file
\* at most n callbacks are in flight at a time
TickFireUpTo(t, n) ==
  /\ t \in ActiveTimers
  /\ TicksInFlight < n
  /\ writeCount[intervals[t].owner] < MaxWrites
  /\ frames' = Append(frames, [NewFrame(intervals[t].owner, "tick", intervals[t].account)
                                 EXCEPT !.timer = t])
  /\ UNCHANGED <<store, isMonitoring, monitorInterval, lastWrittenData, writeCount,
                 intervals, callRet, targetRunning, switchVars>>
  /\ UNCHANGED unitVars
TickFire(t) == TickFireUpTo(t, MaxTicksInFlight)

\* part_000:348-349
Drift(verifyResult, account) ==
  \/ ~verifyResult.success
  \/ verifyResult.hasAuth /\ verifyResult.email # account.email

\* verifyLoginStatus returns: on drift the repair write begins, else the
\* failure counter is reset (part_000:346-370)
TickVerify(j) ==
  /\ j \in DOMAIN frames
  /\ frames[j].kind = "tick" /\ frames[j].wpc = "verify"
  /\ \E ok \in BOOLEAN :
       LET f == frames[j]
           verifyResult == VerifyLoginStatus(f.p, ok, store)
       IN IF Drift(verifyResult, f.account)
            THEN \E sealOk \in BOOLEAN :
                   BeginWrite(frames, j, f, sealOk, isMonitoring, writeCount)
            ELSE /\ intervals' = Collect([intervals EXCEPT ![f.timer].retryCount = 0,
                                                           ![f.timer].repairs = 0],
                                        Remove(frames, j))
                 /\ frames' = Remove(frames, j)
                 /\ UNCHANGED <<store, isMonitoring, monitorInterval, lastWrittenData,
                                writeCount>>
  /\ UNCHANGED <<callRet, targetRunning, switchVars>>
  /\ UNCHANGED unitVars

(***************************************************************************)
(* startMonitoring (part_000:321-338) and stopMonitoring.                  *)
(***************************************************************************)
\* the call up to its first await, fs being the other calls in flight; with
\* isMonitoring set it returns at once
StartMonitoringBegin(p, account, fs) ==
  IF isMonitoring[p]
    THEN /\ frames' = fs
         /\ UNCHANGED <<store, isMonitoring, monitorInterval, lastWrittenData, writeCount,
                        intervals>>
    ELSE LET f == NewFrame(p, "start", account)
             gs == <<f>> \o fs
         IN \E sealOk \in BOOLEAN :
              BeginWrite(gs, 1, f, sealOk, [isMonitoring EXCEPT ![p] = TRUE],
                         [writeCount EXCEPT ![p] = 0])

StopMonitoring(p) ==
  /\ intervals' = Collect(StopIntervals(p, monitorInterval, intervals), frames)
  /\ monitorInterval' = StopInterval(p, monitorInterval)
  /\ isMonitoring' = [isMonitoring EXCEPT ![p] = FALSE]
  /\ UNCHANGED <<store, lastWrittenData, writeCount, frames>>

(***************************************************************************)
(* forceWrite (part_000:402-428).                                          *)
(***************************************************************************)
\* the call up to its first await: the first attempt, or with times = 0 the
\* final verification
ForceWriteBegin(p, account, times) ==
  LET f == [NewFrame(p, "force", account) EXCEPT !.times = times, !.i = 1]
      fs == <<f>> \o frames
  IN IF times >= 1
       THEN \E sealOk \in BOOLEAN :
              BeginWrite(fs, 1, f, sealOk, isMonitoring, writeCount)
       ELSE Suspend(fs, 1, f, store, isMonitoring, writeCount)

\* the delay between two attempts is over: the next attempt
ForceDelayDone(j) ==
  /\ j \in DOMAIN frames
  /\ frames[j].kind = "force" /\ frames[j].wpc = "delay"
  /\ \E sealOk \in BOOLEAN :
       BeginWrite(frames, j, [frames[j] EXCEPT !.i = @ + 1], sealOk,
                  isMonitoring, writeCount)
  /\ UNCHANGED <<callRet, targetRunning, switchVars>>
  /\ UNCHANGED unitVars

\* part_000:420-427
ForceResult(finalVerify, account) ==
  finalVerify.success /\ finalVerify.email = account.email

\* a switchAccount that starts the monitor whatever forceWrite returned
SwitchAfterForceAlways(fs, ret) ==
  /\ StartMonitoringBegin(First, AccountOf(accountData.email, creds), fs)
  /\ stages' = Append(stages, "MonitoringGuardWindow")
  /\ SwitchAwaitStart
  /\ UNCHANGED <<skipClose, machineIds, failures, queryFailed, closeSeen, creds, calls>>

\* switchAccount awaits forceWrite (accountSwitcher.js:835-857, 872-905):
\* with true the monitor is started, with false a warning is logged; the run
\* returns success either way
SwitchAfterForce(fs, ret) ==
  IF ret
    THEN /\ StartMonitoringBegin(First, AccountOf(accountData.email, creds), fs)
         /\ stages' = Append(stages, "MonitoringGuardWindow")
         /\ SwitchAwaitStart
         /\ UNCHANGED <<skipClose, machineIds, failures, queryFailed, closeSeen, creds, calls>>
    ELSE /\ frames' = fs
         /\ pc' = "done"
         /\ result' = Success
         /\ failures' = failures \cup {"ForcedWriteFailed"}
         /\ UNCHANGED <<store, isMonitoring, monitorInterval, lastWrittenData, writeCount,
                        intervals, skipClose, guard, machineIds, stages, queryFailed, closeSeen, creds, calls>>

\* the final verifyLoginStatus returns and forceWrite returns its result to
\* the caller
ForceVerify(j) ==
  /\ j \in DOMAIN frames
  /\ frames[j].kind = "force" /\ frames[j].wpc = "verify"
  /\ \E ok \in BOOLEAN :
       LET f == frames[j]
           finalVerify == VerifyLoginStatus(f.p, ok, store)
           ret == ForceResult(finalVerify, f.account)
       IN /\ callRet' = [value |-> ret, readOk |-> ok]
          /\ IF pc = "force"
               THEN SwitchAfterForce(Remove(frames, j), ret)
               ELSE /\ frames' = Remove(frames, j)
                    /\ UNCHANGED <<store, isMonitoring, monitorInterval, lastWrittenData,
                                   writeCount, intervals, switchVars>>
  /\ UNCHANGED targetRunning
  /\ UNCHANGED unitVars

(***************************************************************************)
(* The environment.                                                        *)
(***************************************************************************)
\* the running target application rewrites its Auth Status row with the
\* account it holds in memory
TargetOverwrite ==
  /\ targetRunning
  /\ store[AuthStatusKey] # FinalValue(JsObject(AuthStatusOf(otherAccount)))
  /\ store' = [store EXCEPT ![AuthStatusKey] = FinalValue(JsObject(AuthStatusOf(otherAccount)))]
  /\ UNCHANGED <<persisterVars, callRet, targetRunning, switchVars>>
  /\ UNCHANGED unitVars

\* a client of a ConfigPersister: it awaits its asynchronous calls one after
\* the other, as switchAccount does, and may call stopMonitoring, which is
\* synchronous, at any time (switchAccount calls it from a timeout)
ClientStartMonitoring(p, account) ==
  /\ ~CallInFlight(p)
  /\ isMonitoring[p] \/ Cardinality(TimersOf(p)) < MaxStarts
  /\ StartMonitoringBegin(p, account, frames)
  /\ UNCHANGED <<callRet, targetRunning, switchVars>>
  /\ UNCHANGED unitVars

ClientForceWrite(p, account, times) ==
  /\ ~CallInFlight(p)
  /\ writeCount[p] + times <= MaxWrites
  /\ ForceWriteBegin(p, account, times)
  /\ UNCHANGED <<callRet, targetRunning, switchVars>>
  /\ UNCHANGED unitVars

ClientStopMonitoring(p) ==
  /\ StopMonitoring(p)
  /\ UNCHANGED <<callRet, targetRunning, switchVars>>
  /\ UNCHANGED unitVars

(***************************************************************************)
(* switchAccount (accountSwitcher.js:508-916).  The account it is given    *)
(* has the email, and after step 3 the name and the key, of accountData.   *)
(* The target application is started by switchAccount only.                *)
(***************************************************************************)
\* forceWrite(accountData, 5, 1000) when the target is left running, and
\* forceWrite(accountData, 3, 2000) after the launch
ForceTimesSkipClose == 5
ForceTimesLaunched == 3

\* WindsurfPathDetector.isRunning (162-186): false when the process query
\* itself fails
IsRunning(queryOk) == queryOk /\ targetRunning
\* WindsurfPathDetector.closeWindsurf (191-299) returns true whether the
\* processes are gone or not: is the target running afterwards
CloseWindsurf(closed) == targetRunning /\ ~closed
\* its last check (287-291): with the target still seen it warns, and it
\* returns true either way; nothing in it throws, every command is in a try
\* of its own and isRunning catches its errors
CloseWindsurfSeen(running, pollOk) == IF running /\ pollOk THEN "running" ELSE "stopped"
\* resetMachineId (474-500): the identifiers of storage.json are replaced
ResetMachineId(ids, ok) == IF ok THEN ids + 1 ELSE ids
\* fullResetWindsurf of machineIdResetter: the machine identity set is
\* regenerated, or the call reports or throws an error
ResetOutcomes == {"ok", "failed", "threw"}
FullResetWindsurf(ids, outcome) == IF outcome = "ok" THEN ids + 1 ELSE ids
\* what an endpoint answers: 2xx with the field, another status, or 2xx
\* without the field (id_token, api_key)
Replies == {"ok", "non2xx", "noField"}
NoCalls == [token |-> 0, register |-> 0, tokenReply |-> "none", registerReply |-> "none"]
\* a step 3 that asks the endpoints although the account has the triple
AcquireCredentialsNoCache(c, hasCredentials, hasRefreshToken, tokenReply, registerReply) ==
  [error |-> "none", creds |-> CachedCreds,
   calls |-> [token |-> c.token + 1, register |-> c.register + 1,
              tokenReply |-> "ok", registerReply |-> "ok"]]

\* a step 3 that asks the token endpoint before it looks for a refreshToken
AcquireCredentialsCallFirst(c, hasCredentials, hasRefreshToken, tokenReply, registerReply) ==
  IF hasCredentials THEN [error |-> "none", creds |-> CachedCreds, calls |-> c]
  ELSE IF ~hasRefreshToken \/ tokenReply = "non2xx"
    THEN [error |-> IF hasRefreshToken THEN "AuthExchangeFailed" ELSE "MissingCredentials",
          creds |-> NoCreds,
          calls |-> [c EXCEPT !.token = @ + 1, !.tokenReply = tokenReply]]
    ELSE LET made == [token |-> c.token + 1, register |-> c.register + 1,
                      tokenReply |-> tokenReply, registerReply |-> registerReply]
         IN IF registerReply = "non2xx"
              THEN [error |-> "AuthExchangeFailed", creds |-> NoCreds, calls |-> made]
              ELSE IF registerReply = "noField"
                THEN [error |-> "TypeError", creds |-> NoCreds, calls |-> made]
                ELSE [error |-> "none", creds |-> FetchedCreds, calls |-> made]

\* step 3 (558-622): the error the step throws or "none", the triple it
\* leaves in apiKey, name and apiServerUrl, and the calls made.  getAccessToken
\* (309-341) throws on a status other than 2xx and returns response.data.id_token
\* as it is; getApiKey (346-367) is then called with it, throws on a status
\* other than 2xx and returns response.data.api_key as it is; without an
\* api_key the log line apiKey.substring (591) throws a TypeError
AcquireCredentials(c, hasCredentials, hasRefreshToken, tokenReply, registerReply) ==
  IF hasCredentials THEN [error |-> "none", creds |-> CachedCreds, calls |-> c]
  ELSE IF ~hasRefreshToken THEN [error |-> "MissingCredentials", creds |-> NoCreds, calls |-> c]
  ELSE IF tokenReply = "non2xx"
    THEN [error |-> "AuthExchangeFailed", creds |-> NoCreds,
          calls |-> [c EXCEPT !.token = @ + 1, !.tokenReply = tokenReply]]
    ELSE LET made == [token |-> c.token + 1, register |-> c.register + 1,
                      tokenReply |-> tokenReply, registerReply |-> registerReply]
         IN IF registerReply = "non2xx"
              THEN [error |-> "AuthExchangeFailed", creds |-> NoCreds, calls |-> made]
              ELSE IF registerReply = "noField"
                THEN [error |-> "TypeError", creds |-> NoCreds, calls |-> made]
                ELSE [error |-> "none", creds |-> FetchedCreds, calls |-> made]
\* a purge that deletes nothing
PurgeStaleRowsKeep(db) == db
\* a purge that deletes the first row it found and no other
PurgeStaleRowsFirst(db) == [db EXCEPT ![LegacyKey] = Absent]
\* step 5.1 (663-671): the rows with a key LIKE 'windsurf_auth-%', and the
\* DELETE of each of them
StaleRows(db) == {key \in DOMAIN db : LikeLegacy(key) /\ db[key] # Absent}
PurgeStaleRows(db) == [key \in DOMAIN db |-> IF key \in StaleRows(db) THEN Absent ELSE db[key]]
\* encryptSessions (372-390) and the values of step 5.3 (679-777)
EncryptSessions(acct) ==
  [sealedFor |-> WindsurfUserData, accessToken |-> acct.apiKey,
   label |-> acct.name, id |-> acct.name]
SwitchRowValue(k) ==
  CASE k = 1 -> JsBuffer(EncryptSessions(AccountOf(accountData.email, creds)))
    [] k = 2 -> JsObject([name |-> creds.name, apiKey |-> creds.apiKey,
                          email |-> accountData.email, planName |-> "Pro"])
    [] k = 3 -> JsObject([apiServerUrl |-> creds.apiServerUrl,
                          hasOneTimeUpdatedUnspecifiedMode |-> TRUE])
    [] OTHER -> JsString(creds.name)
\* writeToDB (395-454) when it does not throw
WriteToDB(db, key, value) == InsertOrReplace(db, key, FinalValue(value))
\* the error writeToDB throws, or "none": null and undefined are refused
\* before the file is read (400-404); ok = FALSE is fs.readFile or
\* fs.writeFile failing
WriteToDBError(value, ok) ==
  IF value.js \in {"null", "undefined"} THEN "InvalidValue"
  ELSE IF ~ok THEN "StoreWriteFailed" ELSE "none"
\* the checks that follow the writes of rows 1 and 2 (714-762): the error
\* thrown, or "none"
VerifyWritten(k, readOk, db) ==
  IF ~readOk THEN "StoreReadFailed"
  ELSE IF db[RowKey(k)] = Absent THEN "WriteVerificationFailed"
  ELSE IF k = 2 /\ ~IsJSON(db[RowKey(k)]) THEN "WriteVerificationFailed"
  ELSE IF k = 2 /\ JSONparse(db[RowKey(k)]).email = "" THEN "WriteVerificationFailed"
  ELSE "none"
\* step 5.5 (787-813) only logs what it finds; it throws when the file
\* cannot be read or a value is not JSON
VerifyLogged(readOk, db) ==
  IF ~readOk THEN "StoreReadFailed"
  ELSE IF \E k \in {SessionsKey, AuthStatusKey} : db[k] # Absent /\ ~IsJSON(db[k])
    THEN "WriteVerificationFailed"
    ELSE "none"

\* the catch of switchAccount (907-915)
Fail(error) ==
  /\ pc' = "failed"
  /\ result' = [returned |-> TRUE, success |-> FALSE, error |-> error]
  /\ failures' = failures \cup {error}
\* a step ends: it threw `error`, or the run is at `next`
Outcome(error, next) ==
  IF error = "none" THEN pc' = next /\ UNCHANGED <<result, failures>> ELSE Fail(error)

WritePc == <<"write1", "write2", "write3", "write4">>
CheckPc == <<"check1", "check2">>
AfterWritePc == <<"check1", "check2", "write4", "sync">>

\* a step 1 that, like closeWindsurf, goes on when the target still runs
SwitchStep1NoCheck ==
  /\ pc = "step1"
  /\ IF skipClose
       THEN /\ pc' = "step2"
            /\ UNCHANGED <<targetRunning, result, failures, stages, queryFailed, closeSeen>>
       ELSE \E isInstalled, queryOk, closed, pollOk, exited, queryOk2 \in BOOLEAN :
              LET isRunning == IsRunning(queryOk)
                  called == isInstalled /\ isRunning
                  left == IF called THEN CloseWindsurf(closed) ELSE targetRunning
                  running == left /\ ~(called /\ exited)
                  stillRunning == isRunning /\ queryOk2 /\ running
              IN /\ stages' = Append(stages, "StoppingTarget")
                 /\ targetRunning' = running
                 /\ queryFailed' = (isInstalled /\ running /\ ~stillRunning)
                 /\ closeSeen' = (IF called THEN CloseWindsurfSeen(left, pollOk) ELSE closeSeen)
                 /\ Outcome(IF ~isInstalled THEN "NotInstalled" ELSE "none", "step2")
  /\ UNCHANGED <<store, persisterVars, callRet, skipClose, guard, machineIds, creds, calls>>
  /\ UNCHANGED unitVars

\* a step 1 that stops the target whatever skipClose says
SwitchStep1AlwaysClose ==
  /\ pc = "step1"
  /\ \E isInstalled, queryOk, closed, pollOk, exited, queryOk2 \in BOOLEAN :
       LET isRunning == IsRunning(queryOk)
           called == isInstalled /\ isRunning
           left == IF called THEN CloseWindsurf(closed) ELSE targetRunning
           running == left /\ ~(called /\ exited)
           stillRunning == isRunning /\ queryOk2 /\ running
       IN /\ stages' = Append(stages, "StoppingTarget")
          /\ targetRunning' = running
          /\ queryFailed' = (isInstalled /\ running /\ ~stillRunning)
          /\ closeSeen' = (IF called THEN CloseWindsurfSeen(left, pollOk) ELSE closeSeen)
          /\ Outcome(IF ~isInstalled THEN "NotInstalled"
                     ELSE IF stillRunning THEN "StopFailed" ELSE "none", "step2")
  /\ UNCHANGED <<store, persisterVars, callRet, skipClose, guard, machineIds, creds, calls>>
  /\ UNCHANGED unitVars

\* step 1 (519-547)
\* a step 1 that resets the machine identity before it looks at the target
SwitchStep1ResetFirst ==
  /\ pc = "step1"
  /\ IF skipClose
       THEN /\ pc' = "step2"
            /\ UNCHANGED <<targetRunning, result, failures, stages, queryFailed, closeSeen,
                           machineIds>>
       ELSE \E isInstalled, queryOk, closed, pollOk, exited, queryOk2 \in BOOLEAN :
              LET isRunning == IsRunning(queryOk)
                  called == isInstalled /\ isRunning
                  left == IF called THEN CloseWindsurf(closed) ELSE targetRunning
                  running == left /\ ~(called /\ exited)
                  stillRunning == isRunning /\ queryOk2 /\ running
              IN /\ stages' = Append(stages, "StoppingTarget")
                 /\ machineIds' = ResetMachineId(machineIds, TRUE)
                 /\ targetRunning' = running
                 /\ queryFailed' = (isInstalled /\ running /\ ~stillRunning)
                 /\ closeSeen' = (IF called THEN CloseWindsurfSeen(left, pollOk) ELSE closeSeen)
                 /\ Outcome(IF ~isInstalled THEN "NotInstalled"
                            ELSE IF stillRunning THEN "StopFailed" ELSE "none", "step2")
  /\ UNCHANGED <<store, persisterVars, callRet, skipClose, guard, creds, calls>>
  /\ UNCHANGED unitVars

SwitchStep1 ==
  /\ pc = "step1"
  /\ IF skipClose
       THEN /\ pc' = "step2"
            /\ UNCHANGED <<targetRunning, result, failures, stages, queryFailed, closeSeen>>
       ELSE \E isInstalled, queryOk, closed, pollOk, exited, queryOk2 \in BOOLEAN :
              LET isRunning == IsRunning(queryOk)
                  called == isInstalled /\ isRunning
                  left == IF called THEN CloseWindsurf(closed) ELSE targetRunning
                  running == left /\ ~(called /\ exited)
                  stillRunning == isRunning /\ queryOk2 /\ running
              IN /\ stages' = Append(stages, "StoppingTarget")
                 /\ targetRunning' = running
                 /\ queryFailed' = (isInstalled /\ running /\ ~stillRunning)
                 /\ closeSeen' = (IF called THEN CloseWindsurfSeen(left, pollOk) ELSE closeSeen)
                 /\ Outcome(IF ~isInstalled THEN "NotInstalled"
                            ELSE IF stillRunning THEN "StopFailed" ELSE "none", "step2")
  /\ UNCHANGED <<store, persisterVars, callRet, skipClose, guard, machineIds, creds, calls>>
  /\ UNCHANGED unitVars

\* a step 2 that starts the target again when it fails
SwitchStep2Rollback ==
  /\ pc = "step2"
  /\ \E ok \in BOOLEAN :
       /\ machineIds' = ResetMachineId(machineIds, ok)
       /\ targetRunning' = (targetRunning \/ ~ok)
       /\ Outcome(IF ok THEN "none" ELSE "ResetMachineIdFailed", "step3")
  /\ stages' = Append(stages, "ResettingMachineId")
  /\ UNCHANGED <<store, persisterVars, callRet, skipClose, guard, queryFailed,
                 closeSeen, creds, calls>>
  /\ UNCHANGED unitVars

\* step 2 (549-556)
SwitchStep2 ==
  /\ pc = "step2"
  /\ \E ok \in BOOLEAN :
       /\ machineIds' = ResetMachineId(machineIds, ok)
       /\ Outcome(IF ok THEN "none" ELSE "ResetMachineIdFailed", "step3")
  /\ stages' = Append(stages, "ResettingMachineId")
  /\ UNCHANGED <<store, targetRunning, persisterVars, callRet, skipClose, guard, queryFailed,
                 closeSeen, creds, calls>>
  /\ UNCHANGED unitVars

\* step 3 (558-622)
SwitchStep3 ==
  /\ pc = "step3"
  /\ \E hasCredentials, hasRefreshToken \in BOOLEAN : \E tokenReply, registerReply \in Replies :
       LET got == AcquireCredentials(calls, hasCredentials, hasRefreshToken, tokenReply,
                                     registerReply)
       IN /\ creds' = got.creds
          /\ calls' = got.calls
          /\ Outcome(got.error, "step4")
  /\ stages' = Append(stages, "AcquiringCredentials")
  /\ UNCHANGED <<store, targetRunning, persisterVars, callRet, skipClose, guard, machineIds,
                 queryFailed, closeSeen>>
  /\ UNCHANGED unitVars

\* step 4 (624-650): an error of fullResetWindsurf is logged and the run
\* goes on
SwitchStep4 ==
  /\ pc = "step4"
  /\ \E outcome \in ResetOutcomes :
       /\ machineIds' = FullResetWindsurf(machineIds, outcome)
       /\ failures' = IF outcome = "ok" THEN failures
                      ELSE failures \cup {"MachineCodeResetFailed"}
  /\ pc' = "purge"
  /\ stages' = Append(stages, "ResettingMachineId")
  /\ UNCHANGED <<store, targetRunning, persisterVars, callRet, skipClose, result, guard,
                 queryFailed, closeSeen, creds, calls>>
  /\ UNCHANGED unitVars

\* steps 5.1 and 5.2 (655-706): the stale rows are deleted, the sessions
\* are sealed and the first writeToDB waits for the file
SwitchPurge ==
  /\ pc = "purge"
  /\ \E readOk, writeOk, sealOk \in BOOLEAN :
       LET stale == StaleRows(store) # {}
           error == IF ~readOk THEN "StoreReadFailed"
                    ELSE IF stale /\ ~writeOk THEN "StoreWriteFailed"
                    ELSE IF ~sealOk THEN "SealingFailed" ELSE "none"
           purged == readOk /\ (~stale \/ writeOk)
       IN /\ store' = IF purged THEN PurgeStaleRows(store) ELSE store
          /\ stages' = IF purged
                         THEN stages \o <<"PurgingStaleRows", "WritingRecords">>
                         ELSE Append(stages, "PurgingStaleRows")
          /\ Outcome(error, WritePc[1])
  /\ UNCHANGED <<targetRunning, persisterVars, callRet, skipClose, guard, machineIds,
                 queryFailed, closeSeen, creds, calls>>
  /\ UNCHANGED unitVars

\* step 5.3 (708-778): writeToDB of row k returns or throws
SwitchWrite(k) ==
  /\ pc = WritePc[k]
  /\ \E ok \in BOOLEAN :
       LET error == WriteToDBError(SwitchRowValue(k), ok) IN
       /\ store' = IF error = "none" THEN WriteToDB(store, RowKey(k), SwitchRowValue(k))
                   ELSE store
       /\ Outcome(error, AfterWritePc[k])
  /\ UNCHANGED <<targetRunning, persisterVars, callRet, skipClose, guard, machineIds, stages,
                 queryFailed, closeSeen, creds, calls>>
  /\ UNCHANGED unitVars

\* the file is read back after the writes of rows 1 and 2 (714-762)
SwitchCheck(k) ==
  /\ pc = CheckPc[k]
  /\ \E readOk \in BOOLEAN : Outcome(VerifyWritten(k, readOk, store), WritePc[k + 1])
  /\ UNCHANGED <<store, targetRunning, persisterVars, callRet, skipClose, guard, machineIds,
                 stages, queryFailed, closeSeen, creds, calls>>
  /\ UNCHANGED unitVars

\* a run that begins the forced write before it has launched the target
SwitchSyncForceFirst ==
  /\ pc = "sync"
  /\ \E readOk \in BOOLEAN :
       LET error == VerifyLogged(readOk, store) IN
       IF error = "none"
         THEN /\ ForceWriteBegin(First, AccountOf(accountData.email, creds),
                                 IF skipClose THEN ForceTimesSkipClose ELSE ForceTimesLaunched)
              /\ pc' = "force"
              /\ stages' = stages \o <<"Verifying", "ForcedWrite">>
              /\ UNCHANGED <<result, failures>>
         ELSE /\ Outcome(error, "launch")
              /\ stages' = Append(stages, "Verifying")
              /\ UNCHANGED <<store, persisterVars>>
  /\ UNCHANGED <<targetRunning, callRet, skipClose, guard, machineIds, queryFailed, closeSeen, creds, calls>>
  /\ UNCHANGED unitVars

\* steps 5.4, 5.5 and what follows up to the next await (782-835, 859-863):
\* the file is read and what is found is logged; with skipClose the forced
\* write of a new ConfigPersister begins, else startWindsurf
SwitchSync ==
  /\ pc = "sync"
  /\ \E readOk \in BOOLEAN :
       LET error == VerifyLogged(readOk, store) IN
       IF error = "none" /\ skipClose
         THEN /\ ForceWriteBegin(First, AccountOf(accountData.email, creds), ForceTimesSkipClose)
              /\ pc' = "force"
              /\ stages' = stages \o <<"Verifying", "ForcedWrite">>
              /\ UNCHANGED <<result, failures>>
         ELSE /\ Outcome(error, "launch")
              /\ stages' = Append(stages, "Verifying")
              /\ UNCHANGED <<store, persisterVars>>
  /\ UNCHANGED <<targetRunning, callRet, skipClose, guard, machineIds, queryFailed, closeSeen, creds, calls>>
  /\ UNCHANGED unitVars

\* step 6 (859-868): startWindsurf (103-157) starts the target or throws
SwitchLaunch ==
  /\ pc = "launch"
  /\ \E ok \in BOOLEAN :
       /\ targetRunning' = (targetRunning \/ ok)
       /\ Outcome(IF ok THEN "none" ELSE "LaunchFailed", "initWait")
  /\ stages' = Append(stages, "LaunchingTarget")
  /\ UNCHANGED <<store, persisterVars, callRet, skipClose, guard, machineIds, queryFailed, closeSeen, creds, calls>>
  /\ UNCHANGED unitVars

\* the three seconds after the launch are over (868-872): the forced write
SwitchInitWait ==
  /\ pc = "initWait"
  /\ ForceWriteBegin(First, AccountOf(accountData.email, creds), ForceTimesLaunched)
  /\ pc' = "force"
  /\ stages' = Append(stages, "ForcedWrite")
  /\ UNCHANGED <<targetRunning, callRet, skipClose, result, guard, machineIds, failures,
                 queryFailed, closeSeen, creds, calls>>
  /\ UNCHANGED unitVars

\* the timeout set after startMonitoring (849-852, 886-889)
SwitchGuardTimeout ==
  /\ guard = "armed"
  /\ StopMonitoring(First)
  /\ guard' = "fired"
  /\ UNCHANGED <<targetRunning, callRet, pc, skipClose, result, machineIds, stages, failures,
                 queryFailed, closeSeen, creds, calls>>
  /\ UNCHANGED unitVars

\* the promise of switchAccount is rejected: nothing is returned
Rejected == [returned |-> FALSE, success |-> FALSE, error |-> "LogCallbackThrew"]
\* where the run is between two of its log calls
LogPcs ==
  {"step1", "step2", "step3", "step4", "purge", "sync", "launch", "initWait"}
    \cup {WritePc[k] : k \in DOMAIN WritePc} \cup {CheckPc[k] : k \in DOMAIN CheckPc}
\* log (509-512) hands every message to logCallback, the function of the
\* caller.  A call of it throws inside the try: the catch (907-915) reports
\* the error with log again, and when logCallback throws again there,
\* nothing catches it
SwitchLogThrows ==
  /\ pc \in LogPcs
  /\ \E again \in BOOLEAN :
       IF again
         THEN pc' = "rejected" /\ result' = Rejected /\ UNCHANGED failures
         ELSE Fail("LogCallbackThrew")
  /\ UNCHANGED <<store, targetRunning, persisterVars, callRet, skipClose, guard, machineIds,
                 stages, queryFailed, closeSeen, creds, calls>>
  /\ UNCHANGED unitVars

(***************************************************************************)
(* Specifications.                                                         *)
(***************************************************************************)
InitPersisters ==
  /\ isMonitoring = [p \in Persisters |-> FALSE]
  /\ monitorInterval = [p \in Persisters |-> NoTimer]
  /\ lastWrittenData = [p \in Persisters |-> NoData]
  /\ writeCount = [p \in Persisters |-> 0]
  /\ intervals = <<>>
  /\ frames = <<>>
  /\ callRet = NoResult
  /\ upsert = NoUpsert
  /\ userData = AppUserData
  /\ seal = NoSeal
  /\ token = NoToken

\* no call of the functions that have a specification of their own
InitFuncs ==
  /\ purge = NoPurge
  /\ relay = NoRelay
  /\ storage = NoStorage
  /\ stop = NoStop
  /\ launch = NoLaunch

InitSwitch(at) ==
  /\ pc = at
  /\ result = NoReturn
  /\ guard = "none"
  /\ machineIds = 0
  /\ stages = <<>>
  /\ failures = {}
  /\ queryFailed = FALSE
  /\ closeSeen = "notCalled"
  /\ creds = NoCreds
  /\ calls = NoCalls

FrameIds == 1..(Cardinality(Persisters) + MaxTicksInFlight)
TimerIds == 1..(Cardinality(Persisters) * MaxStarts)

\* a suspended call of a persister goes on
FrameStep ==
  \/ \E j \in FrameIds : DbRow(j)
  \/ \E j \in FrameIds : TickVerify(j)
  \/ \E j \in FrameIds : ForceDelayDone(j)
  \/ \E j \in FrameIds : ForceVerify(j)

\* switchAccount goes on
SwitchStep ==
  \/ SwitchStep1
  \/ SwitchStep2
  \/ SwitchStep3
  \/ SwitchStep4
  \/ SwitchPurge
  \/ \E k \in 1..NumRows : SwitchWrite(k)
  \/ \E k \in DOMAIN CheckPc : SwitchCheck(k)
  \/ SwitchSync
  \/ SwitchLaunch
  \/ SwitchInitWait

(***************************************************************************)
(* Spec: one switchAccount run, from the call to the end of the monitor it *)
(* starts, on the store of a target logged in with another account.        *)
(***************************************************************************)
Init ==
  /\ store = StoreOf(otherAccount)
  /\ targetRunning \in BOOLEAN
  /\ skipClose \in BOOLEAN
  /\ InitPersisters
  /\ InitSwitch("step1")
  /\ InitFuncs

Next ==
  \/ SwitchStep
  \/ FrameStep
  \/ \E t \in TimerIds : TickFire(t)
  \/ SwitchGuardTimeout
  \/ TargetOverwrite

Spec == Init /\ [][Next]_vars

\* the event loop runs every continuation that is ready and every timeout
\* that is due; the interval timer and the target are not required to act
SpecFair ==
  /\ Init /\ [][Next]_vars
  /\ WF_vars(SwitchStep) /\ WF_vars(FrameStep) /\ WF_vars(SwitchGuardTimeout)

(***************************************************************************)
(* SpecObserved: the run of Spec with a logCallback that may throw.        *)
(***************************************************************************)
NextObserved ==
  \/ Next
  \/ SwitchLogThrows

SpecObserved == Init /\ [][NextObserved]_vars

(***************************************************************************)
(* SpecMon: one ConfigPersister driven through its interface with one      *)
(* account, against a store the running target application writes to.      *)
(***************************************************************************)
\* the store as switchAccount leaves it when it turns to the persister: the
\* rows of the account written and verified, no legacy row; or that store
\* with the Auth Status row removed since
Switched == PurgeStaleRows(StoreOf(accountData))

InitMon ==
  /\ store \in {Switched, [Switched EXCEPT ![AuthStatusKey] = Absent]}
  /\ targetRunning = TRUE
  /\ skipClose = FALSE
  /\ InitPersisters
  /\ InitSwitch("client")
  /\ InitFuncs

NextMon ==
  \/ FrameStep
  \/ \E t \in TimerIds : TickFire(t)
  \/ TargetOverwrite
  \/ ClientStartMonitoring(First, accountData)
  \/ \E times \in 0..MaxTimes : ClientForceWrite(First, accountData, times)
  \/ ClientStopMonitoring(First)

SpecMon == InitMon /\ [][NextMon]_vars

(***************************************************************************)
(* SpecTwo: two switchAccount runs at their last step (accountSwitcher.js  *)
(* 874-892), each with the ConfigPersister it made, on the same store.     *)
(***************************************************************************)
StartStep ==
  \/ \E j \in FrameIds : DbRow(j)
  \/ \E j \in FrameIds : TickVerify(j)

NextTwo ==
  \/ StartStep
  \/ \E t \in TimerIds : TickFire(t)
  \/ TargetOverwrite
  \/ \E p \in Persisters : ClientStartMonitoring(p, accountData)
  \/ \E p \in Persisters : ClientStopMonitoring(p)

SpecTwo == InitMon /\ [][NextTwo]_vars

(***************************************************************************)
(* SpecForce: forceWrite of one ConfigPersister, called with either        *)
(* account.                                                                *)
(***************************************************************************)
Accounts == {accountData, otherAccount}

ForceStep ==
  \/ \E j \in FrameIds : DbRow(j)
  \/ \E j \in FrameIds : ForceDelayDone(j)
  \/ \E j \in FrameIds : ForceVerify(j)

NextForce ==
  \/ ForceStep
  \/ TargetOverwrite
  \/ \E account \in Accounts : \E times \in 0..MaxTimes :
       ClientForceWrite(First, account, times)

SpecForce == InitMon /\ [][NextForce]_vars

(***************************************************************************)
(* SpecTicks: the monitor of one ConfigPersister whose callbacks take      *)
(* longer than the period of the timer: the timer fires again while a      *)
(* callback waits for the file.                                            *)
(***************************************************************************)
NextTicks ==
  \/ \E j \in FrameIds : DbRow(j)
  \/ \E j \in FrameIds : TickVerify(j)
  \/ \E t \in TimerIds : TickFireUpTo(t, MaxTicksInFlight + 1)
  \/ TargetOverwrite
  \/ ClientStartMonitoring(First, accountData)

SpecTicks == InitMon /\ [][NextTicks]_vars

(***************************************************************************)
(* SpecUpsert: the two store writes, writeToDB (accountSwitcher.js:395-454) *)
(* and writeToDatabase (part_000:127-169), called with any key and value.   *)
(***************************************************************************)
JsValues ==
  {JsNull, JsUndefined, JsString(accountData.name), JsObject(AuthStatusOf(accountData)),
   JsBuffer(EncryptedSessions(accountData))}

UpsertWriteToDB(key, value) ==
  /\ \E ok \in BOOLEAN :
       LET error == WriteToDBError(value, ok) IN
       /\ store' = IF error = "none" THEN WriteToDB(store, key, value) ELSE store
       /\ upsert' = [entry |-> "writeToDB", key |-> key, arg |-> value, value |-> value.js,
                     outcome |-> IF error = "none" THEN "true" ELSE error]
  /\ UNCHANGED <<targetRunning, persisterVars, callRet, switchVars, userData, seal, token>>
  /\ UNCHANGED funcVars

UpsertWriteToDatabase(key, value) ==
  /\ \E ok \in BOOLEAN :
       /\ store' = WriteToDatabase(store, key, value, ok)
       /\ upsert' = [entry |-> "writeToDatabase", key |-> key, arg |-> value,
                     value |-> value.js,
                     outcome |-> IF WriteToDatabaseReturn(value, ok) THEN "true" ELSE "false"]
  /\ UNCHANGED <<targetRunning, persisterVars, callRet, switchVars, userData, seal, token>>
  /\ UNCHANGED funcVars

\* the keys the two are called with in the model
UpsertKeys == {SessionsKey, AuthStatusKey, AuthNameKey}

NextUpsert ==
  \/ \E key \in UpsertKeys : \E value \in JsValues : UpsertWriteToDB(key, value)
  \/ \E key \in UpsertKeys : \E value \in JsValues : UpsertWriteToDatabase(key, value)

SpecUpsert == InitMon /\ [][NextUpsert]_vars

(***************************************************************************)
(* SpecRmw: one store write, writeToDB (accountSwitcher.js:406-446) or     *)
(* writeToDatabase (part_000:132-161), as the two steps it is: the file is *)
(* read into a database in memory, and after the row is replaced there the *)
(* database is exported and written over the file.  Between the two,       *)
(* another program (the target application) may write the file.            *)
(***************************************************************************)
RmwEntries == {"writeToDB", "writeToDatabase"}
RmwKeys == {AuthStatusKey, AuthNameKey}
RmwValues == {JsObject(AuthStatusOf(accountData)), JsString(accountData.name)}
\* the rows another writer leaves in the file: the target application saves
\* the Auth Status row and the name of its account, or drops the Auth Status
\* row at a logout
ExternalRows ==
  {<<AuthStatusKey, FinalValue(JsObject(AuthStatusOf(otherAccount)))>>,
   <<AuthStatusKey, Absent>>,
   <<AuthNameKey, FinalValue(JsString(otherAccount.name))>>}

\* a write-back that puts the row into the file as it is now
ExportMerging(snapshot, file, key, value) == InsertOrReplace(file, key, FinalValue(value))

\* db.run(INSERT OR REPLACE) on the database made of the bytes that were
\* read, db.export() and fs.writeFile: the bytes written are that database
Export(snapshot, file, key, value) == InsertOrReplace(snapshot, key, FinalValue(value))

\* what a failing call gives: writeToDB rethrows, writeToDatabase returns false
RmwFailed(entry) == IF entry = "writeToDB" THEN "StoreWriteFailed" ELSE "false"

\* the call up to the await of fs.readFile and its completion; history:
\* written (another writer wrote the file since the read) and lost (the
\* rows of other keys that the write-back changed in the file)
RmwRead(entry, key, value) ==
  /\ upsert.outcome # "reading"
  /\ \E ok \in BOOLEAN :
       upsert' = [entry |-> entry, key |-> key, arg |-> value, value |-> value.js,
                  outcome |-> IF ok THEN "reading" ELSE RmwFailed(entry),
                  snapshot |-> store, written |-> FALSE, lost |-> {}]
  /\ UNCHANGED <<store, targetRunning, persisterVars, callRet, switchVars, userData, seal, token>>
  /\ UNCHANGED funcVars

\* fs.writeFile completes (ok) or fails, and the call returns
RmwWriteBack ==
  /\ upsert.outcome = "reading"
  /\ \E ok \in BOOLEAN :
       LET db == Export(upsert.snapshot, store, upsert.key, upsert.arg) IN
       /\ store' = IF ok THEN db ELSE store
       /\ upsert' = [upsert EXCEPT
            !.outcome = IF ok THEN "true" ELSE RmwFailed(upsert.entry),
            !.lost = IF ok THEN {k \in Keys \ {upsert.key} : db[k] # store[k]} ELSE {}]
  /\ UNCHANGED <<targetRunning, persisterVars, callRet, switchVars, userData, seal, token>>
  /\ UNCHANGED funcVars

\* another program writes a row of the file
ExternalWrite(key, text) ==
  /\ store[key] # text
  /\ store' = [store EXCEPT ![key] = text]
  /\ upsert' = IF upsert.outcome = "reading" THEN [upsert EXCEPT !.written = TRUE]
               ELSE upsert
  /\ UNCHANGED <<targetRunning, persisterVars, callRet, switchVars, userData, seal, token>>
  /\ UNCHANGED funcVars

NextRmw ==
  \/ \E entry \in RmwEntries : \E key \in RmwKeys : \E value \in RmwValues :
       RmwRead(entry, key, value)
  \/ RmwWriteBack
  \/ \E row \in ExternalRows : ExternalWrite(row[1], row[2])

SpecRmw == InitMon /\ [][NextRmw]_vars

(***************************************************************************)
(* SpecSeal: the sealing of the sessions and the write that follows it, in *)
(* switchAccount (accountSwitcher.js:689-711, encryptSessions 372-390) and *)
(* in writeAccountData (part_000:230-266, createEncryptedSessions 70-122), *)
(* for every result of app.setPath and safeStorage.encryptString.          *)
(***************************************************************************)
Paths == {AppUserData, WindsurfUserData, "Other"}
\* safeStorage.encryptString returns a Buffer with bytes, an empty Buffer or
\* null, or it throws
SealResults == {"bytes", "empty", "null", "threw"}
EmptyBytes == [empty |-> TRUE]
SealedBytes(r, acct) == IF r = "empty" THEN EmptyBytes ELSE EncryptedSessions(acct)

\* an encryptSessions without the finally
EncryptSessionsRunNoRestore(path, setOk, r) ==
  LET originalUserData == path
      during == IF setOk THEN WindsurfUserData ELSE originalUserData
  IN [userData |-> during,
      sealedWith |-> IF setOk THEN during ELSE "none",
      sealed |-> IF setOk THEN r ELSE "none",
      outcome |-> IF ~setOk THEN "threw" ELSE r]

\* encryptSessions (372-390): app.setPath throws (setOk = FALSE) or sets the
\* path; encryptString gives r; the finally sets the path back
EncryptSessionsRun(path, setOk, r) ==
  LET originalUserData == path
      during == IF setOk THEN WindsurfUserData ELSE originalUserData
  IN [userData |-> originalUserData,
      sealedWith |-> IF setOk THEN during ELSE "none",
      sealed |-> IF setOk THEN r ELSE "none",
      outcome |-> IF ~setOk THEN "threw" ELSE r]

\* createEncryptedSessions (70-122): app.setPath is called before the inner
\* try; after encryptString the length of the result is logged, which throws
\* for null; the finally sets the path back
CreateEncryptedSessionsRun(path, setOk, r) ==
  LET originalUserData == path
      during == IF setOk THEN WindsurfUserData ELSE originalUserData
  IN [userData |-> IF setOk THEN originalUserData ELSE during,
      sealedWith |-> IF setOk THEN during ELSE "none",
      sealed |-> IF setOk THEN r ELSE "none",
      outcome |-> IF ~setOk \/ r = "null" THEN "threw" ELSE r]

\* the four writeToDatabase calls of writeAccountData, oks[k] telling whether
\* the file could be read and written for row k
WriteRows(db, acct, bytes, oks) ==
  LET d1 == WriteToDatabase(db, RowKey(1), JsBuffer(bytes), oks[1])
      d2 == WriteToDatabase(d1, RowKey(2), RowValue(2, acct), oks[2])
      d3 == WriteToDatabase(d2, RowKey(3), RowValue(3, acct), oks[3])
  IN WriteToDatabase(d3, RowKey(4), RowValue(4, acct), oks[4])

\* switchAccount, 689-711: the sessions are sealed, the result is checked and
\* the Identity row is written
SealSwitch(acct) ==
  /\ \E setOk, ok \in BOOLEAN : \E r \in SealResults :
       LET run == EncryptSessionsRun(userData, setOk, r)
           value == JsBuffer(SealedBytes(run.outcome, acct))
           error == IF run.outcome = "threw" THEN "SealThrew"
                    ELSE IF run.outcome \in {"null", "empty"} THEN "SealingFailed"
                    ELSE WriteToDBError(value, ok)
       IN /\ userData' = run.userData
          /\ store' = IF error = "none" THEN WriteToDB(store, SessionsKey, value) ELSE store
          /\ seal' = [entry |-> "encryptSessions", before |-> userData,
                      after |-> run.userData, sealedWith |-> run.sealedWith,
                      sealed |-> run.sealed,
                      result |-> IF error = "none" THEN "true" ELSE error]
  /\ UNCHANGED <<targetRunning, persisterVars, callRet, switchVars, upsert, token>>
  /\ UNCHANGED funcVars

\* writeAccountData(acct) of a ConfigPersister, the whole call
SealPersister(p, acct) ==
  /\ writeCount[p] < MaxWrites
  /\ \E setOk \in BOOLEAN : \E r \in SealResults : \E oks \in [1..NumRows -> BOOLEAN] :
       LET run == CreateEncryptedSessionsRun(userData, setOk, r)
           ret == run.outcome # "threw"
       IN /\ userData' = run.userData
          /\ store' = IF ret THEN WriteRows(store, acct, SealedBytes(run.outcome, acct), oks)
                      ELSE store
          /\ writeCount' = IF ret THEN [writeCount EXCEPT ![p] = @ + 1] ELSE writeCount
          /\ lastWrittenData' = IF ret
                THEN [lastWrittenData EXCEPT ![p] = [email |-> acct.email, name |-> acct.name]]
                ELSE lastWrittenData
          /\ seal' = [entry |-> "createEncryptedSessions", before |-> userData,
                      after |-> run.userData, sealedWith |-> run.sealedWith,
                      sealed |-> run.sealed,
                      result |-> IF ret THEN "true" ELSE "false"]
  /\ UNCHANGED <<targetRunning, isMonitoring, monitorInterval, intervals, frames, callRet,
                 switchVars, upsert, token>>
  /\ UNCHANGED funcVars

\* other code of the application sets the path
AppSetPath(path) ==
  /\ userData # path
  /\ userData' = path
  /\ UNCHANGED <<store, targetRunning, persisterVars, callRet, switchVars, upsert, seal, token>>
  /\ UNCHANGED funcVars

NextSeal ==
  \/ \E acct \in Accounts : SealSwitch(acct)
  \/ \E acct \in Accounts : SealPersister(First, acct)
  \/ \E path \in Paths : AppSetPath(path)

SpecSeal == InitMon /\ [][NextSeal]_vars

(***************************************************************************)
(* SpecToken: writeAccountData (part_000:213-271) called, as the monitor   *)
(* and forceWrite call it, again and again with one account object, for    *)
(* accounts with and without tokens and every answer of the token fetch.   *)
(***************************************************************************)
\* the account objects: accountData with the three token properties
TokenAccounts ==
  {[idToken |-> i, accessToken |-> a, refreshToken |-> r] @@ accountData :
     i \in {Undefined, "", "idB"}, a \in {Undefined, "accB"}, r \in {Undefined, "refB"}}
\* axios.post of getFirebaseTokens throws (ok = FALSE), or gives
\* response.data with or without id_token and access_token
FirebaseReplies ==
  {[ok |-> FALSE, id_token |-> Undefined, access_token |-> Undefined]}
    \cup [ok : {TRUE}, id_token : {Undefined, "idNew"}, access_token : {Undefined, "accNew"}]
\* what getFirebaseTokens returns (part_000:198-203)
GetFirebaseTokens(data) ==
  [idToken |-> data.id_token,
   accessToken |-> IF Truthy(data, "access_token") THEN data.access_token ELSE data.id_token]
\* part_000:218-228: the account object after the fetch, if one is made
WithFirebaseTokens(account, reply) ==
  IF NeedsFirebaseTokens(account) /\ reply.ok
    THEN LET firebaseTokens == GetFirebaseTokens(reply) IN
         [account EXCEPT !.idToken = firebaseTokens.idToken,
                         !.accessToken = firebaseTokens.accessToken]
    ELSE account

\* one writeAccountData(token.account) of the persister, the whole call;
\* history: before (the object as it was handed in), fetched, reply,
\* sealOk, rowOk (the Identity row was written) and result
TokenWrite ==
  /\ writeCount[First] < MaxWrites
  /\ \E reply \in FirebaseReplies : \E sealOk \in BOOLEAN : \E oks \in [1..NumRows -> BOOLEAN] :
       LET before == token.account
           account == WithFirebaseTokens(before, reply)
           ret == sealOk
       IN /\ store' = IF ret THEN WriteRows(store, account, EncryptedSessions(account), oks)
                      ELSE store
          /\ writeCount' = IF ret THEN [writeCount EXCEPT ![First] = @ + 1] ELSE writeCount
          /\ lastWrittenData' = IF ret
                THEN [lastWrittenData EXCEPT ![First] = [email |-> account.email,
                                                         name |-> account.name]]
                ELSE lastWrittenData
          /\ token' = [at |-> "returned", account |-> account, before |-> before,
                       fetched |-> NeedsFirebaseTokens(before), reply |-> reply,
                       sealOk |-> sealOk, rowOk |-> ret /\ oks[1], result |-> ret]
  /\ UNCHANGED <<targetRunning, isMonitoring, monitorInterval, intervals, frames, callRet,
                 switchVars, upsert, userData, seal>>
  /\ UNCHANGED funcVars

InitToken ==
  /\ token \in [at : {"call"}, account : TokenAccounts]
  /\ store = StoreOf(otherAccount)
  /\ targetRunning = TRUE
  /\ skipClose = FALSE
  /\ isMonitoring = [p \in Persisters |-> FALSE]
  /\ monitorInterval = [p \in Persisters |-> NoTimer]
  /\ lastWrittenData = [p \in Persisters |-> NoData]
  /\ writeCount = [p \in Persisters |-> 0]
  /\ intervals = <<>>
  /\ frames = <<>>
  /\ callRet = NoResult
  /\ upsert = NoUpsert
  /\ userData = AppUserData
  /\ seal = NoSeal
  /\ InitSwitch("client")
  /\ InitFuncs

NextToken == TokenWrite

SpecToken == InitToken /\ [][NextToken]_vars

(***************************************************************************)
(* SpecPurge: step 5.1 of switchAccount (accountSwitcher.js:655-672) on a  *)
(* store with several legacy rows, and other writers of the store.         *)
(***************************************************************************)
PurgeKeys == Keys \cup LegacyKeys
LegacyText(acct) == JSONstringify([legacy |-> acct.name])
\* the store of a target logged in with acct that has all legacy rows
LegacyStoreOf(acct) ==
  [key \in PurgeKeys |-> IF LikeLegacy(key) THEN LegacyText(acct) ELSE StoreOf(acct)[key]]

\* 659-672: the file is read, the rows are selected and deleted and, when
\* there were any, the file is written; readFile and writeFile may throw
PurgeRun ==
  /\ \E readOk, writeOk \in BOOLEAN :
       LET found == IF readOk THEN StaleRows(store) ELSE {}
           done == readOk /\ (found = {} \/ writeOk)
       IN /\ store' = IF done THEN PurgeStaleRows(store) ELSE store
          /\ purge' = [outcome |-> IF done THEN "done" ELSE "threw",
                       found |-> Cardinality(found), before |-> store,
                       prevOutcome |-> purge.outcome, prevFound |-> purge.found]
  /\ UNCHANGED <<targetRunning, persisterVars, callRet, switchVars, sealVars>>
  /\ UNCHANGED <<relay, storage, stop, launch>>

\* another writer of the store puts a row
PurgeWriter(key, acct) ==
  /\ store' = [store EXCEPT ![key] = LegacyStoreOf(acct)[key]]
  /\ store' # store
  /\ purge' = NoPurge
  /\ UNCHANGED <<targetRunning, persisterVars, callRet, switchVars, sealVars>>
  /\ UNCHANGED <<relay, storage, stop, launch>>

InitPurge ==
  /\ store = LegacyStoreOf(otherAccount)
  /\ targetRunning = FALSE
  /\ skipClose = FALSE
  /\ InitPersisters
  /\ InitSwitch("client")
  /\ InitFuncs

NextPurge ==
  \/ PurgeRun
  \/ \E key \in PurgeKeys : \E acct \in Accounts : PurgeWriter(key, acct)

SpecPurge == InitPurge /\ [][NextPurge]_vars

(***************************************************************************)
(* SpecStorage: resetMachineId (accountSwitcher.js:474-500) on the file    *)
(* storage.json, which the target application writes too.                  *)
(***************************************************************************)
MaxResets == 2
IdFields == {"machineId", "sqmId", "devDeviceId"}
OtherFields == {"telemetry.machineId", "theme"}
\* a field of the document is absent or has a value: the original one
\* (gen 0) or the one made by the n-th call
NoField == [form |-> "absent", gen |-> 0]
Original(field) == [form |-> field, gen |-> 0]
\* 480-482: the sha256 of a uuid, a uuid in braces, a uuid, all fresh
NewId(field, n) ==
  [form |-> CASE field = "machineId" -> "sha256" [] field = "sqmId" -> "braced"
              [] OTHER -> "uuid",
   gen |-> n]
\* the contents the file can have: the JSON text of an object, the JSON
\* text null, or a text that is not JSON
ObjectFile(doc) == [kind |-> "object", doc |-> doc]
NullFile == [kind |-> "null", doc |-> [f \in IdFields \cup OtherFields |-> NoField]]
GarbageFile == [kind |-> "garbage", doc |-> [f \in IdFields \cup OtherFields |-> NoField]]
StorageDocs ==
  {doc \in [IdFields \cup OtherFields -> {NoField} \cup {Original(f) : f \in IdFields \cup OtherFields}] :
     \A f \in DOMAIN doc : doc[f] \in {NoField, Original(f)}}

\* a reset that writes a document of the three fields only
StorageDataFresh(doc, n) ==
  [f \in DOMAIN doc |-> IF f \in IdFields THEN NewId(f, n) ELSE NoField]
\* 489-491: the three assignments to the parsed document
StorageData(doc, n) ==
  [f \in DOMAIN doc |-> IF f \in IdFields THEN NewId(f, n) ELSE doc[f]]

\* resetMachineId, the whole call: readFile throws (readOk = FALSE),
\* JSON.parse throws, the assignment to null throws, or writeFile throws
\* and leaves the file as it was or cut short
StorageReset ==
  /\ storage.resets < MaxResets
  /\ \E readOk, writeOk, cut \in BOOLEAN :
       LET n == storage.resets + 1
           file == storage.file
           cause == IF ~readOk THEN "read"
                    ELSE IF file.kind # "object" THEN "parse"
                    ELSE IF ~writeOk THEN "write" ELSE "none"
       IN storage' = [file |-> IF cause = "none" THEN ObjectFile(StorageData(file.doc, n))
                               ELSE IF cause = "write" /\ cut THEN GarbageFile
                               ELSE file,
                      resets |-> n,
                      outcome |-> IF cause = "none" THEN "returned" ELSE cause,
                      before |-> file]
  /\ UNCHANGED <<store, targetRunning, persisterVars, callRet, switchVars, sealVars>>
  /\ UNCHANGED <<purge, relay, stop, launch>>

\* the target application, or the user, writes the file
StorageWrite(file) ==
  /\ storage.file # file
  /\ storage' = [storage EXCEPT !.file = file, !.outcome = "none", !.before = file]
  /\ UNCHANGED <<store, targetRunning, persisterVars, callRet, switchVars, sealVars>>
  /\ UNCHANGED <<purge, relay, stop, launch>>

StorageFiles == {ObjectFile(doc) : doc \in StorageDocs} \cup {NullFile, GarbageFile}

InitStorage ==
  /\ storage \in [file : StorageFiles, resets : {0}, outcome : {"none"},
                   before : {NoStorage.before}]
  /\ store = Switched
  /\ targetRunning = FALSE
  /\ skipClose = FALSE
  /\ InitPersisters
  /\ InitSwitch("client")
  /\ purge = NoPurge /\ relay = NoRelay /\ stop = NoStop /\ launch = NoLaunch

NextStorage ==
  \/ StorageReset
  \/ \E file \in StorageFiles : StorageWrite(file)

SpecStorage == InitStorage /\ [][NextStorage]_vars

(***************************************************************************)
(* SpecStop: closeWindsurf (accountSwitcher.js:191-299), one step for each *)
(* query of the process list, with a target that exits and comes back as   *)
(* it likes.                                                               *)
(***************************************************************************)
Platforms == {"win32", "darwin", "linux"}
maxRetries == 3
\* what isRunning answered
Seen(running) == IF running THEN "running" ELSE "stopped"
\* a command was run after the query that gave `seen`
Sent(signal, seen) == [signal |-> signal, seen |-> seen]
StopOthers == <<store, persisterVars, callRet, switchVars, sealVars, purge, relay, storage,
                launch>>

\* 199-208, 226-237: the request to quit, whether the command fails or not
StopQuit ==
  /\ stop.at = "call"
  /\ stop' = IF stop.platform = "linux"
               THEN [stop EXCEPT !.at = "poll", !.steps = @ + 1]
               ELSE [stop EXCEPT !.at = "check1", !.steps = @ + 1,
                                 !.sent = Append(@, Sent("quit", stop.seen))]
  /\ UNCHANGED targetRunning

\* 210-224, 240-249: the first query and the stronger command
StopCheck1 ==
  /\ stop.at = "check1"
  /\ \E queryOk \in BOOLEAN :
       LET running == IsRunning(queryOk)
           signal == IF stop.platform = "darwin" THEN "terminate" ELSE "kill"
       IN stop' = [stop EXCEPT
                     !.at = IF stop.platform = "darwin" THEN "check2" ELSE "poll",
                     !.steps = @ + 1, !.seen = Seen(running),
                     !.sent = IF running THEN Append(@, Sent(signal, Seen(running))) ELSE @]
  /\ UNCHANGED targetRunning

\* a second query that is followed by the kill whatever it answers
StopCheck2Always ==
  /\ stop.at = "check2"
  /\ \E queryOk \in BOOLEAN :
       LET running == IsRunning(queryOk)
       IN stop' = [stop EXCEPT !.at = "poll", !.steps = @ + 1, !.seen = Seen(running),
                               !.sent = Append(@, Sent("kill", Seen(running)))]
  /\ UNCHANGED targetRunning

\* 252-267: the second query on macOS and the kill
StopCheck2 ==
  /\ stop.at = "check2"
  /\ \E queryOk \in BOOLEAN :
       LET running == IsRunning(queryOk)
       IN stop' = [stop EXCEPT !.at = "poll", !.steps = @ + 1, !.seen = Seen(running),
                               !.sent = IF running THEN Append(@, Sent("kill", Seen(running)))
                                        ELSE @]
  /\ UNCHANGED targetRunning

\* 276-284: one pass of the loop
StopPoll ==
  /\ stop.at = "poll"
  /\ \E queryOk \in BOOLEAN :
       LET stillRunning == IsRunning(queryOk)
       IN stop' = [stop EXCEPT
                     !.at = IF ~stillRunning THEN "returned"
                            ELSE IF stop.i + 1 < maxRetries THEN "poll" ELSE "final",
                     !.i = @ + 1, !.polls = @ + 1, !.steps = @ + 1,
                     !.seen = Seen(stillRunning)]
  /\ UNCHANGED targetRunning

\* 287-294: the last query and the return
StopFinal ==
  /\ stop.at = "final"
  /\ \E queryOk \in BOOLEAN :
       stop' = [stop EXCEPT !.at = "returned", !.polls = @ + 1, !.steps = @ + 1,
                            !.seen = Seen(IsRunning(queryOk))]
  /\ UNCHANGED targetRunning

\* the target exits, or is started again
StopTarget ==
  /\ stop.at # "returned"
  /\ targetRunning' = ~targetRunning
  /\ UNCHANGED stop

StopStep == StopQuit \/ StopCheck1 \/ StopCheck2 \/ StopPoll \/ StopFinal

InitStop ==
  /\ stop \in [at : {"call"}, platform : Platforms, sent : {<<>>}, i : {0}, polls : {0},
                steps : {0}, seen : {"none"}]
  /\ targetRunning \in BOOLEAN
  /\ store = Switched
  /\ skipClose = FALSE
  /\ InitPersisters
  /\ InitSwitch("client")
  /\ purge = NoPurge /\ relay = NoRelay /\ storage = NoStorage /\ launch = NoLaunch

NextStop ==
  \/ StopQuit /\ UNCHANGED StopOthers
  \/ StopCheck1 /\ UNCHANGED StopOthers
  \/ StopCheck2 /\ UNCHANGED StopOthers
  \/ StopPoll /\ UNCHANGED StopOthers
  \/ StopFinal /\ UNCHANGED StopOthers
  \/ StopTarget /\ UNCHANGED StopOthers

SpecStop == InitStop /\ [][NextStop]_vars

(***************************************************************************)
(* SpecLaunch: startWindsurf (accountSwitcher.js:103-157) for every        *)
(* platform and every outcome of the launch commands.                      *)
(***************************************************************************)
\* 115, 120-124, 144: what is launched, in the order of the code
LaunchLocations(platform) ==
  CASE platform = "win32" ->
         <<"Windsurf", "%LOCALAPPDATA%\\Programs\\Windsurf\\Windsurf.exe",
           "%PROGRAMFILES%\\Windsurf\\Windsurf.exe",
           "%PROGRAMFILES(X86)%\\Windsurf\\Windsurf.exe">>
    [] platform = "darwin" -> <<"open -a Windsurf">>
    [] OTHER -> <<>>
LaunchOthers == <<store, persisterVars, callRet, switchVars, sealVars, purge, relay, storage,
                  stop>>

\* a start that goes through all locations whatever they answer
LaunchTryAll ==
  /\ launch.at = "call"
  /\ LET locations == LaunchLocations(launch.platform)
         k == Len(launch.tried) + 1
         last == k >= Len(locations)
         started == \E j \in 1..Len(locations) : j <= k /\ launch.works[j]
     IN /\ launch' = [launch EXCEPT
                        !.tried = IF k <= Len(locations) THEN Append(@, locations[k]) ELSE @,
                        !.at = IF ~last THEN "call" ELSE IF started THEN "returned" ELSE "threw"]
        /\ targetRunning' = (targetRunning \/ (last /\ started))

\* one command of startWindsurf: it launches the target and the call
\* returns true, or it fails and the next location is tried; after the last
\* one, and where there is none, the call throws
LaunchTry ==
  /\ launch.at = "call"
  /\ LET locations == LaunchLocations(launch.platform)
         k == Len(launch.tried) + 1
         started == k <= Len(locations) /\ launch.works[k]
     IN /\ launch' = [launch EXCEPT
                        !.tried = IF k <= Len(locations) THEN Append(@, locations[k]) ELSE @,
                        !.at = IF started THEN "returned"
                               ELSE IF k >= Len(locations) THEN "threw" ELSE "call"]
        /\ targetRunning' = (targetRunning \/ started)

InitLaunch ==
  /\ launch \in [at : {"call"}, platform : Platforms,
                  works : [1..Len(LaunchLocations("win32")) -> BOOLEAN], tried : {<<>>}]
  /\ targetRunning = FALSE
  /\ store = Switched
  /\ skipClose = FALSE
  /\ InitPersisters
  /\ InitSwitch("client")
  /\ purge = NoPurge /\ relay = NoRelay /\ storage = NoStorage /\ stop = NoStop

NextLaunch == LaunchTry /\ UNCHANGED LaunchOthers

SpecLaunch == InitLaunch /\ [][NextLaunch]_vars

(***************************************************************************)
(* SpecRelay: handleRequest of the forwarding relay (cloudflare-worker.js) *)
(* for requests of every shape and every behaviour of the upstream.        *)
(***************************************************************************)
\* !value of JavaScript for the values a request field can have
Falsy(value) == value.js \in {"null", "undefined"} \/ value = JsString("")

Methods == {"POST", "OPTIONS", "GET"}
ContentTypes == {"application/x-www-form-urlencoded", "application/json", ""}
\* a field of the request: not there, empty, or a text
FieldTexts == {"absent", "", "v"}
\* the body of a request: form data, the JSON text of an object, the JSON
\* text null, or a text that is neither
BodyKinds == {"form", "json", "jsonNull", "garbage"}
Bodies ==
  [kind : {"form"}, grant_type : FieldTexts, refresh_token : FieldTexts, api_key : {"absent"}]
    \cup [kind : {"json"}, grant_type : FieldTexts, refresh_token : FieldTexts,
          api_key : FieldTexts]
    \cup [kind : {"jsonNull", "garbage"}, grant_type : {"absent"}, refresh_token : {"absent"},
          api_key : {"absent"}]
Requests == [method : Methods, contentType : ContentTypes, key : FieldTexts, body : Bodies]

\* URLSearchParams.get(name): null when the parameter is not there (40-46)
ParamsGet(body, name) ==
  IF body.kind = "form" /\ body[name] # "absent" THEN JsString(body[name]) ELSE JsNull
\* a relay that does not look at the query string
SearchParamsGetNone(text) == JsNull
SearchParamsGet(text) == IF text = "absent" THEN JsNull ELSE JsString(text)
\* body.name of the object request.json() gave (54-56)
BodyGet(body, name) == IF body[name] = "absent" THEN JsUndefined ELSE JsString(body[name])

\* what the upstream does: fetch throws, or answers with a status and a
\* body that is JSON text or not
UpstreamReplies ==
  {[fetch |-> "threw", status |-> 0, json |-> FALSE]}
    \cup [fetch : {"ok"}, status : {200, 400, 403}, json : BOOLEAN]
NoForward == [sent |-> FALSE, key |-> JsNull, grant_type |-> JsNull, refresh_token |-> JsNull]
Answer(status, body, forward) == [status |-> status, body |-> body, forwarded |-> forward]
ErrorBody(message) == JSONstringify([error |-> message])

\* 80-109: the request to the upstream and the answer made from its reply
Forward(api_key, grant_type, refresh_token, up) ==
  LET sent == [sent |-> TRUE, key |-> api_key, grant_type |-> grant_type,
               refresh_token |-> refresh_token]
  IN IF up.fetch = "threw" \/ ~up.json
       THEN Answer(500, ErrorBody("threw"), sent)
       ELSE Answer(up.status, JSONstringify([upstream |-> up.status]), sent)

\* a validation that checks the key only
ValidateKeyOnly(api_key, grant_type, refresh_token, up) ==
  IF Falsy(api_key) THEN Answer(400, ErrorBody("Missing API key"), NoForward)
  ELSE Forward(api_key, grant_type, refresh_token, up)

\* 59-78: the two checks of the fields
Validate(api_key, grant_type, refresh_token, up) ==
  IF Falsy(api_key) THEN Answer(400, ErrorBody("Missing API key"), NoForward)
  ELSE IF Falsy(grant_type) \/ Falsy(refresh_token)
    THEN Answer(400, ErrorBody("Missing grant_type or refresh_token"), NoForward)
    ELSE Forward(api_key, grant_type, refresh_token, up)

\* handleRequest (11-122)
HandleRequest(request, up) ==
  IF request.method = "OPTIONS" THEN Answer(200, Absent, NoForward)
  ELSE IF request.method # "POST"
    THEN Answer(405, [fmt |-> "raw", body |-> [s |-> "Method not allowed"]], NoForward)
  ELSE IF request.contentType = "application/x-www-form-urlencoded"
    THEN Validate(SearchParamsGet(request.key), ParamsGet(request.body, "grant_type"),
                  ParamsGet(request.body, "refresh_token"), up)
  ELSE IF request.body.kind \in {"form", "garbage"}
    THEN Answer(500, ErrorBody("threw"), NoForward)   \* request.json() throws
  ELSE IF request.body.kind = "jsonNull"
    THEN Answer(500, ErrorBody("threw"), NoForward)   \* body.grant_type of null throws
  ELSE Validate(BodyGet(request.body, "api_key"), BodyGet(request.body, "grant_type"),
                BodyGet(request.body, "refresh_token"), up)

\* the request that has arrived is answered
NoAnswer == Answer(0, Absent, NoForward)
RelayHandle ==
  /\ relay.answer = NoAnswer
  /\ relay' = [relay EXCEPT !.answer = HandleRequest(relay.request, relay.reply)]
  /\ UNCHANGED <<store, targetRunning, persisterVars, callRet, switchVars, sealVars>>
  /\ UNCHANGED <<purge, storage, stop, launch>>

InitRelay ==
  /\ relay \in [request : Requests, reply : UpstreamReplies, answer : {NoAnswer}]
  /\ store = Switched
  /\ targetRunning = TRUE
  /\ skipClose = FALSE
  /\ InitPersisters
  /\ InitSwitch("client")
  /\ purge = NoPurge /\ storage = NoStorage /\ stop = NoStop /\ launch = NoLaunch

NextRelay == RelayHandle

SpecRelay == InitRelay /\ [][NextRelay]_vars

(***************************************************************************)
(* Properties.                                                             *)
(***************************************************************************)
Range(s) == {s[i] : i \in DOMAIN s}
IsPrefix(s, t) == Len(s) <= Len(t) /\ SubSeq(t, 1, Len(s)) = s
\* the email of the Auth Status row of db, "none" without a readable row
RowEmail(db) ==
  IF db[AuthStatusKey] # Absent /\ IsJSON(db[AuthStatusKey])
    THEN JSONparse(db[AuthStatusKey]).email ELSE "none"
\* the step ends the timer callback at j, which had found drift and has now
\* gone through its write sequence
RepairDone(j) ==
  /\ frames[j].kind = "tick" /\ frames[j].wpc = "row" /\ frames[j].row = NumRows
  /\ frames' = Remove(frames, j)
\* the step is a successful write of the Auth Status row by the callback at j
RepairWroteAuthStatus(j) ==
  /\ frames[j].kind = "tick" /\ frames[j].wpc = "row" /\ frames[j].row = 2
  /\ ~frames[j].ioFailed
  /\ frames' = [frames EXCEPT ![j].row = 3]
\* the step starts a timer callback
TickStarts ==
  /\ Len(frames') = Len(frames) + 1
  /\ frames'[Len(frames')].kind = "tick"
\* the step returns from the forceWrite call at j
ForceReturns(j) ==
  /\ frames[j].kind = "force" /\ frames[j].wpc = "verify"
  /\ frames' = Remove(frames, j)
\* the engine is in a write of the store file
EngineWriting ==
  \/ pc \in {"purge"} \cup Range(WritePc)
  \/ \E j \in DOMAIN frames : frames[j].wpc = "row"

\* C1: at any time at most one monitor timer is active on the store, a
\* startMonitoring that finds one active starts no second timer (SpecTwo)
C1_OneMonitorPerStore == Cardinality(ActiveTimers) <= 1

\* C2: a timer callback that found drift and whose repair had a row write
\* fail with an I/O error adds one to the consecutive-failure counter of its
\* monitor (SpecMon)
C2_FailedRepairCounted ==
  [][\A j \in DOMAIN frames :
       (RepairDone(j) /\ frames[j].ioFailed /\ intervals[frames[j].timer].active)
         => intervals'[frames[j].timer].retryCount
              = intervals[frames[j].timer].retryCount + 1]_vars

\* C3 as stated: a monitor that has repaired maxRetries overwrites in a row
\* has halted (SpecMon)
C3_HaltsAfterMaxRetriesRepairs ==
  \A t \in DOMAIN intervals : intervals[t].repairs >= MaxRetries => ~intervals[t].active

\* C3 as the code has it: a callback that found drift and went through its
\* write sequence resets the consecutive-failure counter and leaves the
\* monitor running, however many repairs came before; and a repair whose
\* Auth Status row write succeeds leaves the expected email in the row
C3_RepairKeepsMonitorRunning ==
  [][\A j \in DOMAIN frames :
       /\ (RepairDone(j) /\ intervals[frames[j].timer].active)
            => /\ intervals'[frames[j].timer].active
               /\ intervals'[frames[j].timer].retryCount = 0
       /\ RepairWroteAuthStatus(j) => RowEmail(store') = frames[j].account.email]_vars

\* maxRetries repairs in a row were made and the monitor is still running
C3_Witness ==
  \E t \in DOMAIN intervals : intervals[t].active /\ intervals[t].repairs >= MaxRetries

\* C4: a timer callback starts only while its instance is monitoring: none
\* starts after stopMonitoring (SpecMon)
C4_NoTickAfterStop ==
  [][TickStarts => isMonitoring[frames'[Len(frames')].p]]_vars

\* C5: a run that starts a monitor comes to a state from which no timer of
\* the monitor is active and no callback is in flight any more (SpecFair)
C5_MonitorEventuallyStopped ==
  (pc = "start" \/ guard = "armed") ~> [](ActiveTimers = {} /\ frames = <<>>)

\* the timeout has stopped the monitor of the run and nothing is left
C5_Witness ==
  /\ guard = "fired" /\ intervals # <<>>
  /\ ActiveTimers = {} /\ frames = <<>>

\* C6 as stated: a forceWrite(account, N) that returns has made N
\* writeAccountData calls, and returns true exactly when its final
\* verification read an Auth Status row with the email of account (SpecForce)
C6_ForceWriteResult ==
  [][\A j \in DOMAIN frames :
       ForceReturns(j) =>
         /\ frames[j].attempts = frames[j].times
         /\ callRet'.value <=>
              (callRet'.readOk /\ RowEmail(store) = frames[j].account.email)]_vars

\* C6 as the code has it: N writeAccountData calls whatever their results,
\* and true exactly when the final verification read an Auth Status row
\* whose email is that of account and, if the instance has written before,
\* the email it wrote last
C6_ForceWriteResultLastWritten ==
  [][\A j \in DOMAIN frames :
       ForceReturns(j) =>
         /\ frames[j].attempts = frames[j].times
         /\ callRet'.value <=>
              /\ callRet'.readOk
              /\ RowEmail(store) = frames[j].account.email
              /\ \/ lastWrittenData[frames[j].p] = NoData
                 \/ RowEmail(store) = lastWrittenData[frames[j].p].email]_vars

\* a forceWrite with the largest number of attempts has returned true
C6_Witness ==
  /\ frames = <<>> /\ callRet.value /\ callRet.readOk
  /\ writeCount[First] >= MaxTimes
  /\ RowEmail(store) = lastWrittenData[First].email

\* C7: switchAccount returns success only if no stage failed (Spec)
C7_SuccessOnlyIfAllStagesSucceeded == result.success => failures = {}

\* C8 as stated: without skipClose the engine is in no write of the store
\* while the target runs (Spec)
C8_NoWriteWhileTargetRuns == ~skipClose => ~(targetRunning /\ EngineWriting)

\* C8 as the code has it: without skipClose the engine writes the store
\* while the target runs only after it has launched the target itself (the
\* forced write and the monitor), or when step 1 did not see the target
C8_WritesWhileRunningOnlyAfterLaunch ==
  (~skipClose /\ targetRunning /\ EngineWriting)
    => (queryFailed \/ "LaunchingTarget" \in Range(stages))

\* the forced write after the launch writes the Auth Status row while the
\* launched target runs
C8_Witness ==
  /\ ~skipClose /\ ~queryFailed /\ targetRunning
  /\ \E j \in DOMAIN frames :
       frames[j].kind = "force" /\ frames[j].wpc = "row" /\ frames[j].row = 2

\* C9 as stated: without skipClose the stages are entered in the order of
\* the state machine, each once, and after Verifying only the monitor's
\* callbacks write records (Spec)
SpecOrder ==
  <<"StoppingTarget", "ResettingMachineId", "AcquiringCredentials", "PurgingStaleRows",
    "WritingRecords", "Verifying", "LaunchingTarget", "MonitoringGuardWindow">>
C9_StagesInSpecOrder ==
  ~skipClose =>
    /\ IsPrefix(stages, SpecOrder)
    /\ "Verifying" \in Range(stages) =>
         \A j \in DOMAIN frames : frames[j].wpc = "row" => frames[j].kind = "tick"

\* C9 as the code has it: the machine identity is reset a second time after
\* the credentials, and the launch is followed by a forced write before the
\* monitor is started
CodeOrder ==
  <<"StoppingTarget", "ResettingMachineId", "AcquiringCredentials", "ResettingMachineId",
    "PurgingStaleRows", "WritingRecords", "Verifying", "LaunchingTarget", "ForcedWrite",
    "MonitoringGuardWindow">>
C9_StagesInCodeOrder == ~skipClose => IsPrefix(stages, CodeOrder)

\* a run without skipClose went through every stage
C9_Witness == ~skipClose /\ stages = CodeOrder /\ pc = "done"

C11_FiveAttemptsBeforeMonitor ==
  skipClose =>
    /\ \A j \in DOMAIN frames :
         frames[j].kind = "force" =>
           /\ frames[j].times = ForceTimesSkipClose
           /\ frames[j].attempts <= ForceTimesSkipClose
           /\ frames[j].wpc = "verify" => frames[j].attempts = ForceTimesSkipClose
           /\ intervals = <<>> /\ "MonitoringGuardWindow" \notin Range(stages)
    /\ (intervals # <<>> \/ \E j \in DOMAIN frames : frames[j].kind = "start")
         => "MonitoringGuardWindow" \in Range(stages)
    /\ "MonitoringGuardWindow" \in Range(stages) => callRet.value

\* with skipClose the forced write returned true and the monitor is running
C11_Witness ==
  /\ skipClose /\ pc = "done" /\ callRet.value
  /\ ActiveTimers # {} /\ guard = "armed"

WritingRows ==
  \/ pc \in Range(WritePc)
  \/ \E j \in DOMAIN frames : frames[j].wpc = "row"
\* the Identity row of db decodes to a tagged Buffer
HasIdentity(db) ==
  /\ db[SessionsKey] # Absent /\ IsJSON(db[SessionsKey])
  /\ "type" \in DOMAIN JSONparse(db[SessionsKey])
  /\ JSONparse(db[SessionsKey]).type = "Buffer"

\* C13 as stated: no row of the account is written while a legacy row is in
\* the store, and once a switch that stopped the target has returned success
\* the store has no legacy row, an Identity row and the account's email in
\* the Auth Status row (Spec)
C13_PurgedThenSwitched ==
  /\ WritingRows => store[LegacyKey] = Absent
  /\ (result.success /\ ~skipClose /\ ~queryFailed) =>
       /\ store[LegacyKey] = Absent
       /\ HasIdentity(store)
       /\ RowEmail(store) = accountData.email

\* C13 as the code has it: the purge comes before every row write; a switch
\* that returned success left no legacy row and an Identity row; the Auth
\* Status row has the account's email when the records are written and
\* verified and the target, stopped by step 1, is not launched yet
C13_PurgedThenSwitchedBeforeLaunch ==
  /\ WritingRows => store[LegacyKey] = Absent
  /\ result.success => (store[LegacyKey] = Absent /\ HasIdentity(store))
  /\ (~skipClose /\ ~queryFailed /\ pc \in {"sync", "launch"}) =>
       /\ HasIdentity(store)
       /\ RowEmail(store) = accountData.email

\* a switch that stopped the target has returned success on a purged store
\* with the account's rows
C13_Witness ==
  /\ result.success /\ ~skipClose /\ ~queryFailed /\ closeSeen = "stopped"
  /\ store[LegacyKey] = Absent /\ HasIdentity(store)
  /\ RowEmail(store) = accountData.email

\* C14: when the verification of step 5.5 has passed, the file it read has
\* the account's email in the Auth Status row and an Identity row that
\* decodes to a tagged Buffer (Spec)
C14_VerifiedMeansSwitched ==
  [][(pc = "sync" /\ pc' \in {"launch", "force"})
       => (RowEmail(store) = accountData.email /\ HasIdentity(store))]_vars

\* C15: a store write called with null or undefined ends with an
\* InvalidValue error and leaves the file as it was, and no row ever holds
\* the text "null" (SpecUpsert)
C15_NullIsInvalidValue ==
  [][/\ upsert'.value \in {"null", "undefined"}
          => (upsert'.outcome = "InvalidValue" /\ store' = store)
     /\ \A k \in Keys : store'[k] # NullText]_vars

\* C16: a sealing call, returned or thrown, leaves the 'userData' path as
\* it found it, and encryptString has run only with the path set to the
\* data directory of the target (SpecSeal)
C16_SealingContextScoped ==
  seal.entry # "none" =>
    /\ seal.after = seal.before
    /\ seal.sealedWith \in {"none", WindsurfUserData}
    /\ seal.sealed # "none" => seal.sealedWith = WindsurfUserData

\* a sealing call that threw after it had set the path has set it back
C16_Witness ==
  /\ seal.sealed = "threw" /\ seal.sealedWith = WindsurfUserData
  /\ seal.before = "Other" /\ seal.after = "Other" /\ userData = "Other"

\* C17: when encryptString gave null or an empty Buffer, the write sequence
\* does not report success and no Identity row with empty bytes is in the
\* store (SpecSeal)
C17_EmptySealIsFailure ==
  /\ seal.sealed \in {"null", "empty"} => seal.result # "true"
  /\ JSONparse(store[SessionsKey]).data # EmptyBytes

\* C18: each endpoint is called at most once, and when one of them answered
\* with another status than 2xx or without its field, the switch has failed
\* with AuthExchangeFailed and the store is as the switch found it (Spec)
C18_ExchangeFailureIsFatal ==
  /\ calls.token <= 1 /\ calls.register <= 1
  /\ ({calls.tokenReply, calls.registerReply} \cap {"non2xx", "noField"} # {} /\ pc # "step3")
       => /\ pc = "failed" /\ result.error = "AuthExchangeFailed"
          /\ store = StoreOf(otherAccount)

\* the rows of the store the engine writes are the ones found or the ones of
\* the account with the triple c
RowsFrom(c) ==
  \A k \in 1..NumRows :
    store[RowKey(k)] \in {StoreOf(otherAccount)[RowKey(k)],
                          FinalValue(RowValue(k, AccountOf(accountData.email, c)))}

\* C19: when the account came with the triple, no endpoint is called in the
\* run, the persister is given an account for which it fetches no tokens,
\* and the rows written hold the triple of the account (Spec)
C19_CacheFirst ==
  creds = CachedCreds =>
    /\ calls = NoCalls
    /\ \A j \in DOMAIN frames :
         /\ frames[j].account = AccountOf(accountData.email, CachedCreds)
         /\ ~NeedsFirebaseTokens(frames[j].account)
    /\ RowsFrom(CachedCreds)

\* a run with the triple of the account file has returned success, with the
\* rows of that triple in the store and the monitor running
C19_Witness ==
  /\ creds = CachedCreds /\ calls = NoCalls /\ result.success
  /\ store[AuthStatusKey] = FinalValue(RowValue(2, accountData))
  /\ store[SessionsKey] = FinalValue(RowValue(1, accountData))
  /\ ActiveTimers # {}

\* C20: a run without skipClose that went past step 1 with the target
\* stopped and failed before the launch has left the target stopped (Spec)
C20_FailedRunLeavesTargetStopped ==
  (/\ ~skipClose /\ ~queryFailed /\ pc = "failed"
   /\ "ResettingMachineId" \in Range(stages)
   /\ "LaunchingTarget" \notin Range(stages))
    => ~targetRunning

\* closeWindsurf stopped the target and the run failed for its credentials
C20_Witness ==
  /\ ~skipClose /\ closeSeen = "stopped" /\ ~targetRunning
  /\ pc = "failed" /\ result.error = "AuthExchangeFailed"

\* C21: a purge that runs directly after a purge finds no legacy row,
\* deletes nothing and leaves the store as it was (SpecPurge)
C21_PurgeIdempotent ==
  (purge.outcome = "done" /\ purge.prevOutcome = "done")
    => (purge.found = 0 /\ store = purge.before)

\* the first of the two purges deleted several rows
C21_Witness ==
  /\ purge.outcome = "done" /\ purge.prevOutcome = "done"
  /\ purge.prevFound > 1 /\ purge.found = 0

MissingField(request) ==
  IF request.contentType = "application/x-www-form-urlencoded"
    THEN \/ request.key \in {"absent", ""}
         \/ request.body.kind # "form"
         \/ request.body.grant_type \in {"absent", ""}
         \/ request.body.refresh_token \in {"absent", ""}
    ELSE /\ request.body.kind = "json"
         /\ \/ request.body.api_key \in {"absent", ""}
            \/ request.body.grant_type \in {"absent", ""}
            \/ request.body.refresh_token \in {"absent", ""}
IsErrorBody(text) == IsJSON(text) /\ "error" \in DOMAIN JSONparse(text)
C23_RelayStatusCodes ==
  (relay.request.method = "POST" /\ relay.answer # NoAnswer) =>
    LET request == relay.request
        up == relay.reply
        answer == relay.answer
        unparsable == /\ request.contentType # "application/x-www-form-urlencoded"
                      /\ request.body.kind \in {"form", "garbage", "jsonNull"}
    IN IF MissingField(request)
         THEN answer.status = 400 /\ IsErrorBody(answer.body) /\ ~answer.forwarded.sent
       ELSE IF unparsable \/ up.fetch = "threw" \/ ~up.json
         THEN answer.status = 500 /\ IsErrorBody(answer.body)
       ELSE /\ answer.status = up.status /\ answer.forwarded.sent
            /\ answer.body = JSONstringify([upstream |-> up.status])

\* a JSON request without refresh_token got 400 though the upstream would
\* have answered
C23_Witness ==
  /\ relay.request.method = "POST" /\ relay.request.contentType = "application/json"
  /\ relay.request.body.kind = "json" /\ relay.request.body.api_key = "v"
  /\ relay.request.body.refresh_token = "absent"
  /\ relay.reply.fetch = "ok" /\ relay.reply.json
  /\ relay.answer.status = 400 /\ ~relay.answer.forwarded.sent

\* C24: the answer to a form-encoded POST with the key in the query string,
\* with what it sent upstream, is the answer the JSON POST with the same
\* grant_type, refresh_token and api_key in its body gets from the same
\* upstream (SpecRelay)
JsonTwin(request) ==
  [method |-> "POST", contentType |-> "application/json", key |-> "absent",
   body |-> [kind |-> "json", grant_type |-> request.body.grant_type,
             refresh_token |-> request.body.refresh_token, api_key |-> request.key]]
C24_ShapesEquivalent ==
  (/\ relay.answer # NoAnswer /\ relay.request.method = "POST"
   /\ relay.request.contentType = "application/x-www-form-urlencoded"
   /\ relay.request.body.kind = "form")
    => HandleRequest(JsonTwin(relay.request), relay.reply) = relay.answer

\* a complete form-encoded request was forwarded and the upstream refused it
C24_Witness ==
  /\ relay.request.method = "POST"
  /\ relay.request.contentType = "application/x-www-form-urlencoded"
  /\ relay.request.body.kind = "form" /\ relay.request.key = "v"
  /\ relay.answer.forwarded.sent /\ relay.answer.status = 403
  /\ relay.answer.forwarded.key = JsString("v")

\* C25: a resetMachineId that returned left every field other than
\* machineId, sqmId and devDeviceId as it was, and one that failed to read
\* or to parse the file left the file as it was (SpecStorage)
C25_OnlyThreeFieldsChange ==
  /\ storage.outcome = "returned" =>
       /\ storage.file.kind = "object" /\ storage.before.kind = "object"
       /\ \A f \in OtherFields : storage.file.doc[f] = storage.before.doc[f]
       /\ \A f \in IdFields : storage.file.doc[f] = NewId(f, storage.resets)
  /\ storage.outcome \in {"read", "parse"} => storage.file = storage.before

\* the second reset of a document that has other fields returned
C25_Witness ==
  /\ storage.outcome = "returned" /\ storage.resets = 2
  /\ storage.file.doc["theme"] = Original("theme")
  /\ storage.before.doc["machineId"] = NewId("machineId", 1)

\* the commands of a call were sent from the weakest to the strongest, and
\* each one after the request to quit was sent when the query before it
\* had seen the target running
StopStrength(signal) == CASE signal = "quit" -> 1 [] signal = "terminate" -> 2 [] OTHER -> 3
StopEscalatesInOrder ==
  \A k \in DOMAIN stop.sent :
    /\ k > 1 => /\ stop.sent[k].seen = "running"
                /\ StopStrength(stop.sent[k - 1].signal) < StopStrength(stop.sent[k].signal)
    /\ k = 1 => stop.sent[k].signal = "quit"
\* a call that has not returned can take a step, and it has taken few
StopGoesOn ==
  /\ stop.steps <= 4 + maxRetries
  /\ stop.at \notin {"none", "returned"} => ENABLED StopStep

\* C26 as stated: the commands escalate in order and only after the target
\* was seen running, the call queries the target at most 3 times to
\* confirm, and it returns after a bounded number of steps (SpecStop)
C26_StopEscalatesThreePolls ==
  StopEscalatesInOrder /\ StopGoesOn /\ stop.polls <= maxRetries

\* C26 amended: the same with at most 3 queries in the loop and one last
\* query after it (SpecStop)
C26_StopEscalatesFourPolls ==
  StopEscalatesInOrder /\ StopGoesOn /\ stop.polls <= maxRetries + 1

\* on macOS all three commands were sent and the call returned after its
\* last query, with the target still running
C26_Witness ==
  /\ stop.at = "returned" /\ stop.platform = "darwin" /\ Len(stop.sent) = 3
  /\ stop.polls = maxRetries + 1 /\ stop.seen = "running" /\ targetRunning

\* C27: the locations tried are the first ones of the list, in its order;
\* all but the last tried have failed; the call returns when the last one
\* tried has started the target, and it throws exactly when it is over and
\* every location of the platform has failed (SpecLaunch)
C27_FirstLocationThatWorks ==
  LET locations == LaunchLocations(launch.platform)
      n == Len(launch.tried)
  IN /\ IsPrefix(launch.tried, locations)
     /\ \A j \in 1..n : launch.works[j] => (j = n /\ launch.at = "returned")
     /\ launch.at = "returned" => (n > 0 /\ launch.works[n] /\ targetRunning)
     /\ launch.at = "threw" <=>
          (launch.at # "call" /\ \A j \in 1..Len(locations) : ~launch.works[j])

\* on Windows the third location has started the target and the fourth,
\* which would have worked too, was not tried
C27_Witness ==
  /\ launch.platform = "win32" /\ launch.at = "returned" /\ Len(launch.tried) = 3
  /\ launch.works[4] /\ targetRunning

\* the step is the one in which verifyLoginStatus returns to the callback at j
TickVerifyStep(j) ==
  /\ frames[j].kind = "tick" /\ frames[j].wpc = "verify"
  /\ \/ frames' = Remove(frames, j)
     \/ Len(frames') = Len(frames) /\ frames'[j].wpc = "row"
\* the callback at j goes into its write sequence
StartsRepair(j) ==
  /\ Len(frames') = Len(frames) /\ frames'[j].kind = "tick"
  /\ frames'[j].wpc = "row" /\ frames'[j].row = 1
  /\ store' = store /\ writeCount' = writeCount
\* the callback at j ends having written nothing, with the failure counter at 0
NoDriftEnd(j) ==
  /\ frames' = Remove(frames, j)
  /\ store' = store /\ writeCount' = writeCount
  /\ intervals'[frames[j].timer].retryCount = 0
\* the callback at j ends having written nothing, with one more failure counted
SealFailedEnd(j) ==
  /\ frames' = Remove(frames, j)
  /\ store' = store /\ writeCount' = writeCount
  /\ intervals'[frames[j].timer].active =>
       intervals'[frames[j].timer].retryCount = intervals[frames[j].timer].retryCount + 1
\* the callback at j ends its write sequence: one more write is counted and
\* the failure counter is at 0
RepairCounted(j) ==
  RepairDone(j) =>
    /\ writeCount'[frames[j].p] = writeCount[frames[j].p] + 1
    /\ intervals'[frames[j].timer].retryCount = 0

\* C28 as stated: a callback that finds drift goes through the write
\* sequence, which adds exactly one to writeCount and resets the failure
\* counter; one that finds no drift writes nothing, leaves writeCount and
\* resets the failure counter (SpecMon)
C28_DriftTickWritesOnce ==
  [][\A j \in DOMAIN frames :
       /\ TickVerifyStep(j) =>
            \E ok \in BOOLEAN :
              IF Drift(VerifyLoginStatus(frames[j].p, ok, store), frames[j].account)
                THEN StartsRepair(j) ELSE NoDriftEnd(j)
       /\ RepairCounted(j)]_vars

\* C28 amended: a callback that finds drift either goes through the write
\* sequence, as above, or, when the sealing throws, writes nothing, leaves
\* writeCount and adds one to the failure counter (SpecMon)
C28_DriftTickWritesOnceUnlessSealFails ==
  [][\A j \in DOMAIN frames :
       /\ TickVerifyStep(j) =>
            \E ok \in BOOLEAN :
              IF Drift(VerifyLoginStatus(frames[j].p, ok, store), frames[j].account)
                THEN StartsRepair(j) \/ SealFailedEnd(j) ELSE NoDriftEnd(j)
       /\ RepairCounted(j)]_vars

\* a callback has repaired the store and the next one has found no drift
C28_Witness ==
  /\ frames = <<>> /\ writeCount[First] = 2
  /\ \E t \in DOMAIN intervals :
       intervals[t].active /\ intervals[t].repairs = 1 /\ intervals[t].retryCount = 0
  /\ RowEmail(store) = accountData.email

\* the step ends the write sequence of the call at j
WriteSequenceEnds(j) ==
  /\ frames[j].wpc = "row" /\ frames[j].row = NumRows
  /\ \/ frames' = Remove(frames, j)
     \/ Len(frames') = Len(frames) /\ frames'[j].wpc # "row"

\* C29: a write sequence in which a row write failed counts no write and
\* leaves lastWrittenData, as a sequence that reports failure does: success
\* is reported only when every row was written (SpecMon)
C29_SuccessMeansAllRowsWritten ==
  [][\A j \in DOMAIN frames :
       (WriteSequenceEnds(j) /\ frames[j].ioFailed) =>
         /\ writeCount'[frames[j].p] = writeCount[frames[j].p]
         /\ lastWrittenData'[frames[j].p] = lastWrittenData[frames[j].p]]_vars

\* C30: at most one callback of a timer is in flight at any time (SpecTicks)
C30_TicksNeverOverlap ==
  \A t \in DOMAIN intervals :
    Cardinality({j \in DOMAIN frames : frames[j].kind = "tick" /\ frames[j].timer = t}) <= 1

(***************************************************************************)
(* C31  A store write that writes its database back puts into the file the *)
(* rows it read with the row of its key replaced or inserted: with no      *)
(* other writer between the read and the write-back every other row of the *)
(* file is as it was, and the row of another key that another writer       *)
(* changed in between is back at what the call had read (SpecRmw).  The    *)
(* store holds one text per key.                                           *)
(***************************************************************************)
RmwWritesBack == upsert.outcome = "reading" /\ upsert'.outcome = "true"
C31_UpsertOverwritesWithSnapshot ==
  [][RmwWritesBack =>
       /\ store'[upsert.key] = FinalValue(upsert.arg)
       /\ \A k \in Keys \ {upsert.key} : store'[k] = upsert.snapshot[k]
       /\ ~upsert.written => \A k \in Keys \ {upsert.key} : store'[k] = store[k]]_vars
\* a write-back has undone what another writer did to the auth-name row
C31_Witness ==
  /\ upsert.outcome = "true" /\ upsert.written
  /\ upsert.key = AuthStatusKey /\ AuthNameKey \in upsert.lost
  /\ store[AuthNameKey] = upsert.snapshot[AuthNameKey]
  /\ store[AuthStatusKey] = FinalValue(upsert.arg)

(***************************************************************************)
(* C32  When writeAccountData has written the Identity row, the            *)
(* accessToken of its sessions is the idToken of the account if it has     *)
(* one, else its accessToken if it has one, else its apiKey, the account   *)
(* being the object as the call leaves it: with the tokens of a fetch that *)
(* answered.  A fetch that fails leaves the account as it was, the write   *)
(* sequence goes on and, if sealing works, returns true with the apiKey    *)
(* in the row (SpecToken).                                                 *)
(***************************************************************************)
SessionsToken(db) == JSONparse(db[SessionsKey]).data.accessToken
C32_TokenPreference ==
  token.at = "returned" =>
    LET a == token.account
        b == token.before
        failed == token.fetched /\ ~token.reply.ok
    IN /\ token.rowOk =>
            /\ IsJSON(store[SessionsKey])
            /\ Truthy(a, "idToken") => SessionsToken(store) = a.idToken
            /\ ~Truthy(a, "idToken") /\ Truthy(a, "accessToken") =>
                 SessionsToken(store) = a.accessToken
            /\ ~Truthy(a, "idToken") /\ ~Truthy(a, "accessToken") =>
                 SessionsToken(store) = a.apiKey
            /\ Truthy(b, "idToken") => SessionsToken(store) = b.idToken
            /\ token.fetched /\ token.reply.ok /\ Truthy(token.reply, "id_token") =>
                 SessionsToken(store) = token.reply.id_token
            /\ failed => SessionsToken(store) = b.apiKey
       /\ failed => a = b /\ token.result = token.sealOk
\* the fetch failed and the row was written with the apiKey
C32_Witness ==
  /\ token.at = "returned" /\ token.fetched /\ ~token.reply.ok
  /\ token.rowOk /\ token.result
  /\ SessionsToken(store) = accountData.apiKey

(***************************************************************************)
(* C33  switchAccount never throws or rejects: a run that has ended has    *)
(* returned {success: true, ...} or {success: false, error}, and a failure *)
(* that is returned was logged before with the same error (SpecObserved).  *)
(* The statement as the specification makes it: a run whose logCallback    *)
(* throws in the catch ends rejected.                                      *)
(***************************************************************************)
C33_NeverRejects ==
  /\ pc # "rejected"
  /\ result.returned =>
       \/ result.success /\ result.error = "none" /\ pc = "done"
       \/ ~result.success /\ result.error \in failures /\ pc = "failed"
  /\ pc \in {"done", "failed"} => result.returned

(***************************************************************************)
(* C34  A run without skipClose that fails in step 1, because the target   *)
(* is not installed or because it is still seen running after the stop     *)
(* attempt, has changed nothing: the machine identity was not reset, the   *)
(* store file is as it was, no endpoint was called, and no later stage     *)
(* was entered (Spec).                                                     *)
(***************************************************************************)
FailedInStep1 == pc = "failed" /\ result.error \in {"NotInstalled", "StopFailed"}
C34_Step1FailsBeforeMutation ==
  FailedInStep1 =>
    /\ ~skipClose /\ result.returned /\ ~result.success
    /\ machineIds = 0
    /\ store = StoreOf(otherAccount)
    /\ calls = NoCalls /\ creds = NoCreds
    /\ stages = <<"StoppingTarget">>
    /\ frames = <<>> /\ intervals = <<>>
\* the stop attempt was made, the target is still running and the run has
\* failed with nothing changed
C34_Witness ==
  /\ FailedInStep1 /\ result.error = "StopFailed" /\ closeSeen # "notCalled"
  /\ targetRunning /\ machineIds = 0 /\ store = StoreOf(otherAccount) /\ calls = NoCalls

(***************************************************************************)
(* C35  A run for an account without the cached triple and without a       *)
(* refreshToken fails in step 3 with no store row deleted or written and   *)
(* no endpoint called, after step 2 has rewritten the machine identity     *)
(* once (Spec).                                                            *)
(***************************************************************************)
FailedForCredentials == pc = "failed" /\ result.error = "MissingCredentials"
C35_NoCredentialsFailsAfterReset ==
  FailedForCredentials =>
    /\ result.returned /\ ~result.success
    /\ store = StoreOf(otherAccount)
    /\ calls = NoCalls /\ creds = NoCreds
    /\ machineIds = 1
    /\ "ResettingMachineId" \in Range(stages)
    /\ stages[Len(stages)] = "AcquiringCredentials"
    /\ "PurgingStaleRows" \notin Range(stages)
    /\ frames = <<>> /\ intervals = <<>>
\* such a run, the target having been stopped first
C35_Witness ==
  /\ FailedForCredentials /\ ~skipClose /\ ~targetRunning
  /\ machineIds = 1 /\ store = StoreOf(otherAccount) /\ calls = NoCalls

(***************************************************************************)
(* C36  In every reachable state every interval timer that is active is    *)
(* the one monitorInterval of its ConfigPersister refers to, and           *)
(* isMonitoring of that instance is true (SpecMon).  The statement as the  *)
(* specification makes it: a stopMonitoring that comes while              *)
(* startMonitoring awaits its first write is followed by a timer that runs *)
(* with isMonitoring false.                                                *)
(***************************************************************************)
C36_ActiveTimerIsMonitored ==
  \A t \in ActiveTimers :
    /\ monitorInterval[intervals[t].owner] = t
    /\ isMonitoring[intervals[t].owner]
====
